---------------------------- MODULE Spec2Model ----------------------------
(***************************************************************************)
(* Quick Subset Construction (QSC) and Subset Construction (SC).           *)
(*                                                                         *)
(* The model keeps one heap of State objects, as the C++ program does:     *)
(* the states of the input NFA and the ConstructedStates of the DFA are    *)
(* objects of the same heap, addressed by an integer, and a transition     *)
(* is a (source, label, target) triple of the exiting map of its source    *)
(* and a (target, label, source) triple of the incoming map of its         *)
(* target.  Strings (state names and labels) are sequences of character    *)
(* codes, so that std::string comparison is the lexicographic order.       *)
(***************************************************************************)
EXTENDS Integers, Sequences, FiniteSets, TLC

VARIABLES
    nfaStates,      \* Automaton::m_states of the input NFA
    nfaInitial,     \* Automaton::m_initial_state of the input NFA
    dfaStates,      \* Automaton::m_states of the DFA under construction
    dfaInitial,     \* Automaton::m_initial_state of the DFA
    m_name,         \* State::m_name, per object
    m_final,        \* State::m_final, per object
    m_level,        \* the distance of each object from the initial state
    m_extension,    \* ConstructedState::m_extension, per object
    m_mark,         \* ConstructedState::m_mark, per object
    exiting,        \* State::m_exiting_transitions: <<s, l, c>>, c a child of s under l
    incoming,       \* BidirectionalState::m_incoming_transitions: <<c, l, p>>, p a parent of c under l
    m_set,          \* SingularityList::m_set, in iteration order
    stats,          \* the runtime statistics of the QSC instance
    sc,             \* the DFA returned by SubsetConstruction::run
    nextId,         \* the next object to allocate
    calls,          \* the calls of QuickSubsetConstruction::run on the instance so far
    processed,      \* history: the singularities of each scenario in the current call
    relocation_sequence, \* the list that runDistanceRelocation is working through
    previous,       \* history: what the call of run before this one returned
    lastCall,       \* history: the operation of Automaton or State that returned last,
                    \* as <<name, arguments ..., result>>, or the last iteration of
                    \* the restructuring phase, as <<scenario, state, label, ...>>
    pc              \* position of the driver

vars == <<nfaStates, nfaInitial, dfaStates, dfaInitial, m_name, m_final, m_level,
          m_extension, m_mark, exiting, incoming, m_set, stats, sc, nextId, calls,
          processed, relocation_sequence, previous, lastCall, pc>>

-----------------------------------------------------------------------------
(* Bounds of the input family. *)
NumStates == 3
MaxTrans == 3
MaxSingularities == 12
MaxCalls == 2

(* Program constants. *)
DEFAULT_VOID_LEVEL == 1073741824
NULL == -1
EPSILON == <<>>
EMPTY_EXTENSION_NAME == <<226, 136, 133>>

(* Labels "a" and "b" of the enumerated inputs; "b", "d", "e" of the hand-built one. *)
Alphabet == {<<97>>, <<98>>}

-----------------------------------------------------------------------------
(* std::string *)

RECURSIVE StrLess(_, _)
StrLess(a, b) ==
    IF a = <<>> THEN b # <<>>
    ELSE IF b = <<>> THEN FALSE
    ELSE IF Head(a) = Head(b) THEN StrLess(Tail(a), Tail(b))
    ELSE Head(a) < Head(b)

(* The decimal name of the i-th state of an input automaton ("0", "1", ...). *)
StateName(i) == <<48 + i>>

(* The elements of a set of objects in the order of State::Comparator (by name). *)
RECURSIVE ExtensionOrder(_, _)
ExtensionOrder(names, ext) ==
    IF ext = {} THEN <<>>
    ELSE LET first == CHOOSE m \in ext : \A o \in ext : ~ StrLess(names[o], names[m])
         IN  <<first>> \o ExtensionOrder(names, ext \ {first})

RECURSIVE JoinNames(_, _)
JoinNames(names, order) ==
    IF order = <<>> THEN <<>>
    ELSE names[Head(order)] \o <<44>> \o JoinNames(names, Tail(order))

createNameFromExtension(names, ext) ==
    IF ext = {} THEN EMPTY_EXTENSION_NAME
    ELSE LET joined == JoinNames(names, ExtensionOrder(names, ext))
         IN  <<123>> \o SubSeq(joined, 1, Len(joined) - 1) \o <<125>>

hasFinalStates(finals, ext) == \E m \in ext : finals[m]

-----------------------------------------------------------------------------
(* State: queries on the transition maps *)

getChildren(ex, s, l) == {t[3] : t \in {u \in ex : u[1] = s /\ u[2] = l}}

hasExitingTransition(ex, s, l) == getChildren(ex, s, l) # {}

getParents(inc, c, l) == {t[3] : t \in {u \in inc : u[1] = c /\ u[2] = l}}

(* The extension with its epsilon children, taken once. *)
computeEpsilonClosure_once(ex, ext) ==
    ext \cup {t[3] : t \in {u \in ex : u[1] \in ext /\ u[2] = EPSILON}}

RECURSIVE computeEpsilonClosure(_, _)
computeEpsilonClosure(ex, ext) ==
    LET reached == ext \cup {t[3] : t \in {u \in ex : u[1] \in ext /\ u[2] = EPSILON}}
    IN  IF reached = ext THEN ext ELSE computeEpsilonClosure(ex, reached)

getLabelsExitingFromExtension(ex, ext) == {t[2] : t \in {u \in ex : u[1] \in ext}}

(* The l-children of the extension, without their epsilon closure. *)
computeLClosureOfExtension_children(ex, ext, l) ==
    UNION {getChildren(ex, m, l) : m \in ext}

computeLClosureOfExtension(ex, ext, l) ==
    computeEpsilonClosure(ex, UNION {getChildren(ex, m, l) : m \in ext})

computeLClosure(ex, s, l) == computeEpsilonClosure(ex, getChildren(ex, s, l))

-----------------------------------------------------------------------------
(* The heap as one record, so that a handler is a composition of updates. *)

Heap ==
    [name |-> m_name, final |-> m_final, level |-> m_level, extension |-> m_extension,
     mark |-> m_mark, exiting |-> exiting, incoming |-> incoming, states |-> dfaStates,
     set |-> m_set, next |-> nextId]

RECURSIVE SetToSeq(_)
SetToSeq(S) ==
    IF S = {} THEN <<>>
    ELSE LET x == CHOOSE y \in S : TRUE IN <<x>> \o SetToSeq(S \ {x})

(* State::connectChild, which records the edge in the parent only. *)
connectChild_exiting(h, T) == [h EXCEPT !.exiting = @ \cup T]

(* BidirectionalState::connectChild applied to every <<parent, label, child>> of T. *)
connectChild(h, T) ==
    [h EXCEPT !.exiting = @ \cup T,
              !.incoming = @ \cup {<<t[3], t[2], t[1]>> : t \in T \ h.exiting}]

(* BidirectionalState::disconnectChild applied to every <<parent, label, child>> of T. *)
disconnectChild(h, T) ==
    [h EXCEPT !.exiting = @ \ T,
              !.incoming = @ \ {<<t[3], t[2], t[1]>> : t \in T \cap h.exiting}]

(* State::detachAllTransitions, which detaches the exiting transitions only. *)
detachAllTransitions_exiting(h, s) == disconnectChild(h, {t \in h.exiting : t[1] = s})

detachAllTransitions(h, s) ==
    LET out  == disconnectChild(h, {t \in h.exiting : t[1] = s})
        back == {<<t[3], t[2], t[1]>> : t \in {u \in out.incoming : u[1] = s}}
    IN  disconnectChild(out, back)

(* Automaton::removeState applied to every state of S. *)
RECURSIVE removeState(_, _)
removeState(h, S) ==
    IF S = {} THEN h
    ELSE LET s == CHOOSE x \in S : TRUE
             d == detachAllTransitions(h, s)
         IN  removeState([d EXCEPT !.states = @ \ {s}], S \ {s})

(* new ConstructedState(extension) *)
ConstructedState(h, ext) ==
    [h EXCEPT !.name = @ @@ (h.next :> createNameFromExtension(h.name, ext)),
              !.final = @ @@ (h.next :> hasFinalStates(h.final, ext)),
              !.level = @ @@ (h.next :> DEFAULT_VOID_LEVEL),
              !.extension = @ @@ (h.next :> ext),
              !.mark = @ @@ (h.next :> FALSE),
              !.next = @ + 1]

(* A replacement of the extension that keeps the name and the final flag. *)
replaceExtensionWith_unnamed(h, s, ext) == [h EXCEPT !.extension[s] = ext]

replaceExtensionWith(h, s, ext) ==
    [h EXCEPT !.extension[s] = ext,
              !.name[s] = createNameFromExtension(h.name, ext),
              !.final[s] = hasFinalStates(h.final, ext)]

(* A lookup by name that finds no state. *)
getStatesByName_none(h, n) == {}

(* A lookup by name that sees final states only. *)
getStatesByName_final(h, n) == {s \in h.states : h.name[s] = n /\ h.final[s]}

(* Automaton::getStatesByName; Automaton::getState returns its first element, *)
(* in the order of the addresses of the objects.                             *)
getStatesByName(h, n) == {s \in h.states : h.name[s] = n}

(* An isSafe that counts the transition of the singularity as well. *)
isSafe_any_parent(h, x, singularity_state, singularity_label) ==
    \/ h.level[x] = 0
    \/ \E t \in h.incoming :
         /\ t[1] = x
         /\ h.level[t[3]] <= h.level[singularity_state]

(* BidirectionalConstructedState::isSafe, called on x. *)
isSafe(h, x, singularity_state, singularity_label) ==
    \/ h.level[x] = 0
    \/ \E t \in h.incoming :
         /\ t[1] = x
         /\ h.level[t[3]] <= h.level[singularity_state]
         /\ t[2] = singularity_label => t[3] # singularity_state

(* An isUnsafe that finds every state safe. *)
isUnsafe_never(h, x, singularity_state, singularity_label) == FALSE

isUnsafe(h, x, singularity_state, singularity_label) ==
    ~ isSafe(h, x, singularity_state, singularity_label)

RECURSIVE initDistancesRecursively(_, _, _)
initDistancesRecursively(level, ex, queue) ==
    IF queue = <<>> THEN level
    ELSE LET cur == Head(queue)
             fresh == {c \in {t[3] : t \in {u \in ex : u[1] = cur}} :
                          level[c] = DEFAULT_VOID_LEVEL}
         IN  initDistancesRecursively(
                 [o \in DOMAIN level |-> IF o \in fresh THEN level[cur] + 1 ELSE level[o]],
                 ex, Tail(queue) \o SetToSeq(fresh))

(* The children of state, one entry for each transition that leaves it, each *)
(* with the distance new_distance.                                            *)
pushChildren(ex, state, new_distance) ==
    LET trans == SetToSeq({u \in ex : u[1] = state})
    IN  [i \in 1..Len(trans) |-> <<trans[i][3], new_distance>>]

(* A loop body that sets the distance whenever it differs from the candidate. *)
relocationStep_unconditional(level, ex, sequence) ==
    LET current == Head(sequence)
        rest == Tail(sequence)
    IN  IF level[current[1]] # current[2]
        THEN [level |-> [level EXCEPT ![current[1]] = current[2]],
              sequence |-> rest \o pushChildren(ex, current[1], current[2] + 1)]
        ELSE [level |-> level, sequence |-> rest]

(* One iteration of the loop of runDistanceRelocation: the front of the      *)
(* sequence is popped and, when its distance is below the distance of its    *)
(* state, it is set and the children of the state are pushed at the back.    *)
relocationStep(level, ex, sequence) ==
    LET current == Head(sequence)
        rest == Tail(sequence)
    IN  IF level[current[1]] > current[2]
        THEN [level |-> [level EXCEPT ![current[1]] = current[2]],
              sequence |-> rest \o pushChildren(ex, current[1], current[2] + 1)]
        ELSE [level |-> level, sequence |-> rest]

RECURSIVE runDistanceRelocation(_, _, _)
runDistanceRelocation(level, ex, sequence) ==
    IF sequence = <<>> THEN level
    ELSE LET step == relocationStep(level, ex, sequence)
         IN  runDistanceRelocation(step.level, ex, step.sequence)

-----------------------------------------------------------------------------
(* Singularity and SingularityList.  A singularity is <<state, label>>. *)

(* A comparison that looks at the distance and the label only. *)
compare_without_name(h, a, b) ==
    IF h.level[a[1]] = h.level[b[1]]
    THEN StrLess(a[2], b[2])
    ELSE h.level[a[1]] - h.level[b[1]] < 0

(* Singularity::compare(rhs) < 0 *)
compare(h, a, b) ==
    IF h.level[a[1]] = h.level[b[1]]
    THEN IF h.name[a[1]] = h.name[b[1]]
         THEN StrLess(a[2], b[2])
         ELSE StrLess(h.name[a[1]], h.name[b[1]])
    ELSE h.level[a[1]] - h.level[b[1]] < 0

(* std::set::insert.  The set finds the place of the new element by comparing *)
(* it with elements of its tree: the place has the new element not less than  *)
(* its predecessor and less than its successor.  While the keys are in order  *)
(* there is one such place; once distance relocation has changed keys in      *)
(* place there may be several, and which one the tree reaches depends on its  *)
(* shape: hi selects the last or the first of them.  The element is rejected  *)
(* when its predecessor is not less than it.                                  *)
insert(h, x, hi) ==
    LET n == Len(h.set)
        places == {p \in 0..n : /\ p = 0 \/ ~ compare(h, x, h.set[p])
                                /\ p = n \/ compare(h, x, h.set[p + 1])}
        p == CHOOSE q \in places : \A r \in places : IF hi THEN r <= q ELSE q <= r
    IN  IF p > 0 /\ ~ compare(h, h.set[p], x)
        THEN h
        ELSE [h EXCEPT !.set = SubSeq(@, 1, p) \o <<x>> \o SubSeq(@, p + 1, n)]

(* QuickSubsetConstruction::addSingularityToList for every singularity of S. *)
RECURSIVE addSingularityToList(_, _, _)
addSingularityToList(h, S, hi) ==
    IF S = {} THEN h
    ELSE LET x == CHOOSE y \in S : TRUE
         IN  addSingularityToList(insert(h, x, hi), S \ {x}, hi)

(* A removal that stops at the first singularity of the targets. *)
removeSingularitiesOfState_first(h, targets) ==
    LET found == {i \in 1..Len(h.set) : h.set[i][1] \in targets}
    IN  IF found = {} THEN h
        ELSE LET first == CHOOSE i \in found : \A j \in found : i <= j
             IN  [h EXCEPT !.set = SubSeq(@, 1, first - 1) \o SubSeq(@, first + 1, Len(@))]

(* SingularityList::removeSingularitiesOfState for each state of targets. *)
removeSingularitiesOfState(h, targets) ==
    [h EXCEPT !.set = SelectSeq(@, LAMBDA x : x[1] \notin targets)]

removedLabels(h, target_state) ==
    {h.set[i][2] : i \in {j \in 1..Len(h.set) : h.set[j][1] = target_state}}

RECURSIVE sortInto(_, _)
sortInto(h, old) ==
    IF old = <<>> THEN h ELSE sortInto(insert(h, Head(old), FALSE), Tail(old))

sort(h) == sortInto([h EXCEPT !.set = <<>>], h.set)

-----------------------------------------------------------------------------
(* The input automata: every automaton of NumStates states named "0", "1",   *)
(* ... with at most MaxTrans transitions over the alphabet and epsilon, state *)
(* 0 initial and the last state final (states unreachable from the initial    *)
(* state included), the hand-built automaton of Main.cpp, and two larger     *)
(* automata chosen for their distance relocations.                            *)

PossibleTrans == (0..(NumStates - 1)) \X (Alphabet \cup {EPSILON}) \X (0..(NumStates - 1))

RECURSIVE TransSets(_)
TransSets(k) ==
    IF k = 0 THEN {{}}
    ELSE LET smaller == TransSets(k - 1)
         IN  smaller \cup {T \cup {t} : T \in smaller, t \in PossibleTrans}

(* The hand-built automaton of main(): labels d, e, b; state 2 is final. *)
MainTransitions ==
    {<<0, EPSILON, 2>>, <<0, <<100>>, 1>>, <<1, EPSILON, 2>>, <<1, EPSILON, 3>>,
     <<2, <<101>>, 3>>, <<3, EPSILON, 3>>, <<3, <<98>>, 4>>, <<4, EPSILON, 3>>,
     <<4, <<100>>, 3>>, <<4, <<100>>, 1>>}

(* The same automaton with and without the transition main() adds last. *)
MainAutomaton ==
    {[states |-> 0..4, finals |-> {2}, trans |-> MainTransitions \cup extra] :
        extra \in {{}, {<<3, <<98>>, 2>>}}}

(* Two generated automata of four states over {a, b} on which Scenario S1    *)
(* links an existing state and distance relocation lowers the distance of a  *)
(* state that queued singularities refer to.                                 *)
RelocationAutomata ==
    {[states |-> 0..3, finals |-> {3},
      trans |-> {<<0, EPSILON, 3>>, <<0, <<97>>, 3>>, <<1, <<97>>, 2>>, <<1, <<98>>, 0>>,
                 <<2, <<97>>, 2>>, <<3, EPSILON, 2>>, <<3, <<98>>, 1>>}],
     [states |-> 0..3, finals |-> {3},
      trans |-> {<<0, EPSILON, 0>>, <<0, EPSILON, 1>>, <<0, <<98>>, 1>>, <<1, <<97>>, 3>>,
                 <<1, <<98>>, 2>>, <<2, <<97>>, 0>>, <<2, <<98>>, 0>>, <<3, <<98>>, 0>>}]}

InputAutomata ==
    {[states |-> 0..(NumStates - 1), finals |-> {NumStates - 1}, trans |-> T] :
        T \in TransSets(MaxTrans)}
    \cup MainAutomaton \cup RelocationAutomata

NoStats == [checkup |-> 0, s0 |-> 0, s1 |-> 0, s2 |-> 0, total |-> 0]

NoneProcessed == [s0 |-> 0, s1 |-> 0, s2 |-> 0]

Init ==
    /\ nfaStates = {}
    /\ nfaInitial = NULL
    /\ m_name = <<>>
    /\ m_final = <<>>
    /\ m_level = <<>>
    /\ m_extension = <<>>
    /\ m_mark = <<>>
    /\ exiting = {}
    /\ incoming = {}
    /\ nextId = 0
    /\ dfaStates = {}
    /\ dfaInitial = NULL
    /\ m_set = <<>>
    /\ stats = NoStats
    /\ calls = 0
    /\ lastCall = <<>>
    /\ relocation_sequence = <<>>
    /\ previous = <<>>
    /\ processed = NoneProcessed
    /\ sc = [initial |-> <<>>, states |-> {}, trans |-> {}, level |-> <<>>]
    /\ pc = "nfa"

(* The caller builds the NFA: its states, its transitions, and state 0 set   *)
(* as the initial state, which gives every state it reaches its distance.    *)
Build(in) ==
    /\ pc = "nfa"
    /\ nfaStates' = in.states
    /\ nfaInitial' = 0
    /\ m_name' = [o \in in.states |-> StateName(o)]
    /\ m_final' = [o \in in.states |-> o \in in.finals]
    /\ m_extension' = [o \in in.states |-> {}]
    /\ m_mark' = [o \in in.states |-> FALSE]
    /\ exiting' = in.trans
    /\ incoming' = {<<t[3], t[2], t[1]>> : t \in in.trans}
    /\ m_level' = initDistancesRecursively(
                      [o \in in.states |-> IF o = 0 THEN 0 ELSE DEFAULT_VOID_LEVEL],
                      in.trans, <<0>>)
    /\ nextId' = Cardinality(in.states)
    /\ pc' = "sc"
    /\ UNCHANGED <<lastCall, dfaStates, dfaInitial, m_set, stats, sc, relocation_sequence, previous, calls, processed>>

BuildAutomaton == \E in \in InputAutomata : Build(in)

-----------------------------------------------------------------------------
(* SubsetConstruction::run.  A state of its DFA is [name, extension, final]; *)
(* a transition is <<name, label, name>>.                                    *)

scState(ext) ==
    [name |-> createNameFromExtension(m_name, ext), extension |-> ext,
     final |-> hasFinalStates(m_final, ext)]

RECURSIVE SubsetConstructionLoop(_, _)
SubsetConstructionLoop(dfa, singularities_stack) ==
    IF singularities_stack = <<>> THEN dfa
    ELSE LET current_state == Head(singularities_stack)
             labels == getLabelsExitingFromExtension(exiting, current_state.extension)
                           \ {EPSILON}
             reached == {<<l, scState(computeLClosureOfExtension(
                                          exiting, current_state.extension, l))>> :
                            l \in labels}
             kept == {r \in reached : r[2].extension # {}}
             names == {d.name : d \in dfa.states}
             new == {r[2] : r \in {q \in kept : q[2].name \notin names}}
         IN  SubsetConstructionLoop(
                 [dfa EXCEPT !.states = @ \cup new,
                             !.trans = @ \cup {<<current_state.name, r[1], r[2].name>> :
                                                  r \in kept}],
                 Tail(singularities_stack) \o SetToSeq(new))

SubsetConstruction ==
    LET initial_dfa_state == scState(computeEpsilonClosure(exiting, {nfaInitial}))
        dfa == SubsetConstructionLoop(
                   [initial |-> initial_dfa_state.name, states |-> {initial_dfa_state},
                    trans |-> {}],
                   <<initial_dfa_state>>)
        names == {d.name : d \in dfa.states}
    IN  [initial |-> dfa.initial, states |-> dfa.states, trans |-> dfa.trans,
         level |-> initDistancesRecursively(
                       [n \in names |-> IF n = dfa.initial THEN 0 ELSE DEFAULT_VOID_LEVEL],
                       dfa.trans, <<dfa.initial>>)]

RunSubsetConstruction ==
    /\ pc = "sc"
    /\ sc' = SubsetConstruction
    /\ pc' = "clone"
    /\ UNCHANGED <<lastCall, nfaStates, nfaInitial, dfaStates, dfaInitial, m_name, m_final, m_level,
                   m_extension, m_mark, exiting, incoming, m_set, stats, nextId, calls,
                   processed, relocation_sequence, previous>>

-----------------------------------------------------------------------------
(* QuickSubsetConstruction::run *)

(* Writes a heap record back into the variables. *)
Store(h) ==
    /\ m_name' = h.name
    /\ m_final' = h.final
    /\ m_level' = h.level
    /\ m_extension' = h.extension
    /\ m_mark' = h.mark
    /\ exiting' = h.exiting
    /\ incoming' = h.incoming
    /\ dfaStates' = h.states
    /\ m_set' = h.set
    /\ nextId' = h.next

(* A cloning that makes the last state of the list an accepting one. *)
RECURSIVE cloneStates_last_final(_, _)
cloneStates_last_final(h, nfa_states) ==
    IF nfa_states = <<>> THEN h
    ELSE LET nfa_state == Head(nfa_states)
             made == ConstructedState(h, {nfa_state})
         IN  cloneStates_last_final(
                 [made EXCEPT !.states = @ \cup {h.next},
                              !.level[h.next] = h.level[nfa_state],
                              !.final[h.next] = @ \/ Tail(nfa_states) = <<>>],
                 Tail(nfa_states))

(* First phase: one ConstructedState per state of the NFA, with its distance. *)
RECURSIVE cloneStates(_, _)
cloneStates(h, nfa_states) ==
    IF nfa_states = <<>> THEN h
    ELSE LET nfa_state == Head(nfa_states)
             made == ConstructedState(h, {nfa_state})
         IN  cloneStates([made EXCEPT !.states = @ \cup {h.next},
                                      !.level[h.next] = h.level[nfa_state]],
                         Tail(nfa_states))

(* A copy of the transitions that keeps the child of the NFA as the child. *)
cloneTransitions_shared(ex, states_map) ==
    {<<states_map[t[1]], t[2], t[3]>> :
        t \in {u \in ex : u[1] \in nfaStates /\ ~ (u[3] = u[1] /\ u[2] = EPSILON)}}

(* A copy of the transitions that leaves the epsilon transitions out. *)
cloneTransitions_labelled(ex, states_map) ==
    {<<states_map[t[1]], t[2], states_map[t[3]]>> :
        t \in {u \in ex : u[1] \in nfaStates /\ u[2] # EPSILON}}

(* The transitions the first phase copies: every transition of the NFA but   *)
(* the epsilon self-loops, between the copies of its two ends.               *)
cloneTransitions(ex, states_map) ==
    {<<states_map[t[1]], t[2], states_map[t[3]]>> :
        t \in {u \in ex : u[1] \in nfaStates /\ ~ (u[3] = u[1] /\ u[2] = EPSILON)}}

(* A detection that takes every transition of the NFA but the epsilon ones   *)
(* of the states other than the initial one for a singularity.               *)
cloneSingularities_all(ex, states_map) ==
    {<<states_map[t[1]], t[2]>> :
        t \in {u \in ex : /\ u[1] \in nfaStates
                          /\ u[1] = nfaInitial \/ u[2] # EPSILON}}

(* The singularities the first phase detects on the NFA. *)
cloneSingularities(ex, states_map) ==
    {<<states_map[t[1]], t[2]>> :
        t \in {u \in ex :
                 /\ u[1] \in nfaStates
                 /\ \/ u[1] = nfaInitial /\ u[2] = EPSILON
                    \/ /\ u[2] # EPSILON
                       /\ \/ \E g \in getChildren(ex, u[3], EPSILON) : g # u[3]
                          \/ Cardinality(getChildren(ex, u[1], u[2])) > 1}}

(* The first phase, lines 119-210, with the states of the NFA enumerated in  *)
(* the order nfa_states.                                                     *)
CloneInOrder(nfa_states, hi) ==
    /\ pc = "clone"
    /\ LET cloned == cloneStates(Heap, nfa_states)
           states_map == [o \in nfaStates |->
                            CHOOSE d \in cloned.states : cloned.extension[d] = {o}]
           linked == connectChild(cloned, cloneTransitions(exiting, states_map))
           found == addSingularityToList(linked, cloneSingularities(exiting, states_map), hi)
           d0 == states_map[nfaInitial]
           levelled == IF d0 \in found.states
                       THEN [found EXCEPT !.level = initDistancesRecursively(
                                 [found.level EXCEPT ![d0] = 0], found.exiting, <<d0>>)]
                       ELSE found
       IN  /\ Store(levelled)
           /\ dfaInitial' = IF d0 \in found.states THEN d0 ELSE dfaInitial
           /\ stats' = [stats EXCEPT !.checkup = Len(levelled.set)]
    /\ calls' = calls + 1
    /\ processed' = NoneProcessed
    /\ pc' = "s0"
    /\ UNCHANGED <<lastCall, nfaStates, nfaInitial, sc, relocation_sequence, previous>>

(* The first phase with the states of the NFA in the order of their addresses. *)
Clone(hi) == CloneInOrder(SetToSeq(nfaStates), hi)

(* SingularityList::pop: the first singularity leaves the list. *)
pop(h) == [h EXCEPT !.set = Tail(@)]

(* A call of run that may not process any singularity. *)
WithinBudget_never == FALSE

(* The model follows a call of run up to MaxSingularities singularities      *)
(* processed under the three scenarios.                                       *)
WithinBudget == processed.s0 + processed.s1 + processed.s2 < MaxSingularities

(* A seeding that queues a singularity for every label of the alphabet. *)
extensionSingularities_alphabet(h, state) == {<<state, l>> : l \in Alphabet}

(* A seeding that queues a singularity for epsilon too. *)
extensionSingularities_epsilon(h, state) ==
    {<<state, l>> : l \in getLabelsExitingFromExtension(h.exiting, h.extension[state])}

(* The labels of the singularities queued on a state for its extension. *)
extensionSingularities(h, state) ==
    {<<state, l>> : l \in getLabelsExitingFromExtension(h.exiting, h.extension[state])
                            \ {EPSILON}}

(* A re-homing that leaves the unsafe states in the DFA. *)
rehomeUnsafeStates_kept(h, unsafe_states, target, hi) ==
    LET moved == connectChild(h,
                     {<<target, t[2], t[3]>> :
                         t \in {u \in h.exiting : /\ u[1] \in unsafe_states
                                                  /\ u[2] # EPSILON
                                                  /\ ~ h.mark[u[3]]}})
    IN  addSingularityToList(moved,
            {<<t[3], t[2]>> :
                t \in {u \in moved.incoming : /\ u[1] \in unsafe_states
                                             /\ u[2] # EPSILON
                                             /\ ~ moved.mark[u[3]]}}, hi)

(* Lines 8-14 and 30-36: the safe exiting transitions of the unsafe states    *)
(* are re-homed on target, their safe parents get a singularity, and the      *)
(* unsafe states are removed from the DFA.                                    *)
rehomeUnsafeStates(h, unsafe_states, target, hi) ==
    LET moved == connectChild(h,
                     {<<target, t[2], t[3]>> :
                         t \in {u \in h.exiting : /\ u[1] \in unsafe_states
                                                  /\ u[2] # EPSILON
                                                  /\ ~ h.mark[u[3]]}})
        queued == addSingularityToList(moved,
                     {<<t[3], t[2]>> :
                         t \in {u \in moved.incoming : /\ u[1] \in unsafe_states
                                                      /\ u[2] # EPSILON
                                                      /\ ~ moved.mark[u[3]]}}, hi)
    IN  removeState(queued, unsafe_states)

(* A Scenario S0 that pops the singularity and leaves the automaton as it is. *)
scenario0_skipped(h, initial_dfa_state, hi) == h

(* Scenario S0 on the popped singularity (initial_dfa_state, epsilon). *)
scenario0(h, initial_dfa_state, hi) ==
    LET d0_eps_closure == computeEpsilonClosure(h.exiting, {initial_dfa_state})
        n0_eps_closure == computeEpsilonClosure(h.exiting, {nfaInitial})
        unsafe_states == {x \in d0_eps_closure : isUnsafe(h, x, initial_dfa_state, EPSILON)}
        marked == [h EXCEPT !.mark = [o \in DOMAIN @ |-> @[o] \/ o \in unsafe_states]]
        extended == replaceExtensionWith(marked, initial_dfa_state, n0_eps_closure)
        cut == disconnectChild(extended,
                   {t \in extended.exiting : t[1] = initial_dfa_state /\ t[2] = EPSILON})
        seeded == addSingularityToList(cut,
                      {<<initial_dfa_state, l>> :
                          l \in getLabelsExitingFromExtension(
                                    cut.exiting, n0_eps_closure \ {nfaInitial}) \ {EPSILON}},
                      hi)
        rehomed == rehomeUnsafeStates(seeded, unsafe_states, initial_dfa_state, hi)
    IN  removeSingularitiesOfState(rehomed, unsafe_states)

(* Line 222: the list holds the singularity of the initial state on epsilon. *)
Scenario0Applies == m_set # <<>> /\ Head(m_set)[2] = EPSILON

Scenario0(hi) ==
    /\ pc = "s0"
    /\ Scenario0Applies
    /\ WithinBudget
    /\ Store(scenario0(pop(Heap), Head(m_set)[1], hi))
    /\ stats' = [stats EXCEPT !.s0 = @ + 1]
    /\ processed' = [processed EXCEPT !.s0 = @ + 1]
    /\ lastCall' = <<"Scenario0", Head(m_set)[1], Head(m_set)[2]>>
    /\ pc' = "loop"
    /\ UNCHANGED <<nfaStates, nfaInitial, dfaInitial, sc, relocation_sequence, previous, calls>>

SkipScenario0 ==
    /\ pc = "s0"
    /\ ~ Scenario0Applies
    /\ pc' = "loop"
    /\ UNCHANGED <<lastCall, nfaStates, nfaInitial, dfaStates, dfaInitial, m_name, m_final, m_level,
                   m_extension, m_mark, exiting, incoming, m_set, stats, sc, relocation_sequence, previous, nextId, calls,
                   processed>>

(* The singularity the next iteration pops, and its l-closure |N. *)
current_singularity_state == Head(m_set)[1]
current_singularity_label == Head(m_set)[2]
nfa_l_closure ==
    computeLClosureOfExtension(exiting, m_extension[current_singularity_state],
                               current_singularity_label)
nfa_l_closure_name == createNameFromExtension(m_name, nfa_l_closure)

(* A Scenario S1 that links the existing state and leaves its distance. *)
scenario1Existing_unrelocated(h, state, label, child) ==
    connectChild(h, {<<state, label, child>>})

(* Scenario S1 with the existing state child as the state named |N. *)
scenario1Existing(h, state, label, child) ==
    LET linked == connectChild(h, {<<state, label, child>>})
    IN  [linked EXCEPT !.level = runDistanceRelocation(
                                     @, linked.exiting, <<<<child, @[state] + 1>>>>)]

(* Scenario S1 with a new state of extension |N. *)
scenario1New(h, state, label, ext, hi) ==
    LET new_state == h.next
        made == ConstructedState(h, ext)
        added == [made EXCEPT !.states = @ \cup {new_state}]
        linked == connectChild(added, {<<state, label, new_state>>})
        placed == [linked EXCEPT !.level[new_state] = linked.level[state] + 1]
    IN  addSingularityToList(placed, extensionSingularities(placed, new_state), hi)

(* Line 426: the state of the popped singularity has no child under its      *)
(* label.                                                                     *)
Scenario1Applies ==
    /\ m_set # <<>>
    /\ ~ hasExitingTransition(exiting, current_singularity_state, current_singularity_label)

Scenario1(hi) ==
    /\ pc = "loop"
    /\ Scenario1Applies
    /\ WithinBudget
    /\ LET h == pop(Heap)
           found == getStatesByName(h, nfa_l_closure_name)
       IN  IF found # {}
           THEN \E child \in found :
                    Store(scenario1Existing(h, current_singularity_state,
                                            current_singularity_label, child))
           ELSE Store(scenario1New(h, current_singularity_state,
                                   current_singularity_label, nfa_l_closure, hi))
    /\ stats' = [stats EXCEPT !.s1 = @ + 1]
    /\ processed' = [processed EXCEPT !.s1 = @ + 1]
    /\ lastCall' = <<"Scenario1", current_singularity_state, current_singularity_label,
                     getStatesByName(Heap, nfa_l_closure_name) # {}>>
    /\ UNCHANGED <<nfaStates, nfaInitial, dfaInitial, sc, relocation_sequence, previous, calls, pc>>

(* A test of lines 470-498 that never finds Scenario S2 applicable. *)
scenario_2_flag_unset == FALSE

scenario_2_flag_always == TRUE

(* The test of lines 470-498: Scenario S2 applies to the popped singularity. *)
scenario_2_flag ==
    LET children == getChildren(exiting, current_singularity_state, current_singularity_label)
    IN  \/ Cardinality(children) > 1
        \/ \E current_singularity_child \in children :
             \/ hasExitingTransition(exiting, current_singularity_child, EPSILON)
             \/ m_name[current_singularity_child] # nfa_l_closure_name

(* Scenario S2 up to line 620; found is what Automaton::getState returned for *)
(* the name of |N (NULL when the DFA has no state of that name).              *)
scenario2(h, state, label, ext, found, hi) ==
    LET dfa_l_closure == computeLClosure(h.exiting, state, label)
        unsafe_states == {x \in dfa_l_closure : isUnsafe(h, x, state, label)}
        marked == removeSingularitiesOfState(
                      [h EXCEPT !.mark = [o \in DOMAIN @ |-> @[o] \/ o \in unsafe_states]],
                      unsafe_states)
        reuse == found # NULL /\ ~ marked.mark[found]
        dfa_new_state == IF reuse THEN found ELSE marked.next
        made == IF reuse THEN marked
                ELSE LET new == ConstructedState(marked, ext)
                     IN  [new EXCEPT !.level[dfa_new_state] = new.level[state] + 1,
                                     !.states = @ \cup {dfa_new_state}]
        seeded == addSingularityToList(made, extensionSingularities(made, dfa_new_state), hi)
        cut == disconnectChild(seeded,
                   {t \in seeded.exiting : t[1] = state /\ t[2] = label})
        rehomed == rehomeUnsafeStates(cut, unsafe_states, dfa_new_state, hi)
    IN  connectChild(rehomed, {<<state, label, dfa_new_state>>})

(* Lines 634-693: the two namesake states first and second are merged. *)
mergeNamesakes(h, state, label, first, second, hi) ==
    LET min_dist_state == IF h.level[first] < h.level[second] THEN first ELSE second
        max_dist_state == IF h.level[first] < h.level[second] THEN second ELSE first
        exits == connectChild(h, {<<min_dist_state, t[2], t[3]>> :
                                     t \in {u \in h.exiting : u[1] = max_dist_state}})
        copied == connectChild(exits, {<<t[3], t[2], min_dist_state>> :
                                          t \in {u \in exits.incoming : u[1] = max_dist_state}})
        removed == removeState(copied, {max_dist_state})
        labels == removedLabels(removed, max_dist_state)
        purged == removeSingularitiesOfState(removed, {max_dist_state})
        moved == addSingularityToList(purged,
                     {<<min_dist_state, l>> :
                         l \in {k \in labels : /\ k # EPSILON
                                               /\ ~ (min_dist_state = state /\ k = label)}},
                     hi)
        relocated == [moved EXCEPT !.level = runDistanceRelocation(@, moved.exiting,
                         SetToSeq({<<t[3], @[min_dist_state] + 1>> :
                                      t \in {u \in moved.exiting : u[1] = min_dist_state}}))]
    IN  sort(relocated)

Scenario2Applies ==
    /\ m_set # <<>>
    /\ hasExitingTransition(exiting, current_singularity_state, current_singularity_label)
    /\ scenario_2_flag

Scenario2(hi) ==
    /\ pc = "loop"
    /\ Scenario2Applies
    /\ WithinBudget
    /\ LET h == pop(Heap)
           candidates == getStatesByName(h, nfa_l_closure_name)
       IN  \E found \in (IF candidates = {} THEN {NULL} ELSE candidates) :
               LET done == scenario2(h, current_singularity_state, current_singularity_label,
                                     nfa_l_closure, found, hi)
                   namesake_states == getStatesByName(done, nfa_l_closure_name)
               IN  /\ IF Cardinality(namesake_states) > 1
                      THEN \E first \in namesake_states :
                               \E second \in namesake_states \ {first} :
                                   Store(mergeNamesakes(done, current_singularity_state,
                                             current_singularity_label, first, second, hi))
                      ELSE Store(done)
                   /\ lastCall' = <<"Scenario2", current_singularity_state,
                                    current_singularity_label,
                                    Cardinality(namesake_states) > 1>>
    /\ stats' = [stats EXCEPT !.s2 = @ + 1]
    /\ processed' = [processed EXCEPT !.s2 = @ + 1]
    /\ UNCHANGED <<nfaStates, nfaInitial, dfaInitial, sc, relocation_sequence, previous, calls, pc>>

(* Line 502: neither scenario applies, the singularity is dropped. *)
NoScenarioApplies ==
    /\ m_set # <<>>
    /\ hasExitingTransition(exiting, current_singularity_state, current_singularity_label)
    /\ ~ scenario_2_flag

NoScenario ==
    /\ pc = "loop"
    /\ NoScenarioApplies
    /\ m_set' = pop(Heap).set
    /\ lastCall' = <<"NoScenario", current_singularity_state, current_singularity_label>>
    /\ UNCHANGED <<nfaStates, nfaInitial, dfaStates, dfaInitial, m_name, m_final, m_level,
                   m_extension, m_mark, exiting, incoming, stats, sc, relocation_sequence, previous, nextId, calls,
                   processed, pc>>

Return ==
    /\ pc = "loop"
    /\ m_set = <<>>
    /\ stats' = [stats EXCEPT !.total = stats.s0 + stats.s1 + stats.s2]
    /\ pc' = "done"
    /\ UNCHANGED <<lastCall, nfaStates, nfaInitial, dfaStates, dfaInitial, m_name, m_final, m_level,
                   m_extension, m_mark, exiting, incoming, m_set, sc, relocation_sequence, previous, nextId, calls,
                   processed>>

Next ==
    \/ BuildAutomaton
    \/ RunSubsetConstruction
    \/ \E hi \in BOOLEAN : Clone(hi)
    \/ \E hi \in BOOLEAN : Scenario0(hi)
    \/ SkipScenario0
    \/ \E hi \in BOOLEAN : Scenario1(hi)
    \/ \E hi \in BOOLEAN : Scenario2(hi)
    \/ NoScenario
    \/ Return

Spec == Init /\ [][Next]_vars

(* The steps of QuickSubsetConstruction::run.  It is one call on one thread:  *)
(* once entered, it takes its next step as long as it has one.                *)
Run ==
    \/ \E hi \in BOOLEAN : Clone(hi)
    \/ \E hi \in BOOLEAN : Scenario0(hi)
    \/ SkipScenario0
    \/ \E hi \in BOOLEAN : Scenario1(hi)
    \/ \E hi \in BOOLEAN : Scenario2(hi)
    \/ NoScenario
    \/ Return

(* ENABLED <<Run>>_vars written out step by step.  Clone, Scenario0,         *)
(* SkipScenario0 and Return change pc, Scenario1 and Scenario2 change stats,  *)
(* and NoScenario changes the list when pop does.                            *)
RunEnabled ==
    \/ pc = "clone"
    \/ pc = "s0" /\ (Scenario0Applies => WithinBudget)
    \/ /\ pc = "loop"
       /\ \/ m_set = <<>>
          \/ (Scenario1Applies \/ Scenario2Applies) /\ WithinBudget
          \/ NoScenarioApplies /\ pop(Heap).set # m_set

(* Weak fairness of Run, WF_vars(Run), with ENABLED <<Run>>_vars written out  *)
(* as RunEnabled.                                                             *)
FairSpec == Spec /\ ([]<>(~ RunEnabled) \/ []<><<Run>>_vars)

-----------------------------------------------------------------------------
(* Several calls of run on one instance of the algorithm.                    *)

(* The next call starts from the NFA alone: cleanInternalStatus deletes the   *)
(* list of the previous call, the call allocates a new list and a new DFA,    *)
(* and the DFA returned before belongs to the caller, so its objects leave    *)
(* the model.                                                                 *)
EnterRun ==
    /\ pc = "done"
    /\ calls < MaxCalls
    /\ dfaStates' = {}
    /\ dfaInitial' = NULL
    /\ m_name' = [o \in nfaStates |-> m_name[o]]
    /\ m_final' = [o \in nfaStates |-> m_final[o]]
    /\ m_level' = [o \in nfaStates |-> m_level[o]]
    /\ m_extension' = [o \in nfaStates |-> m_extension[o]]
    /\ m_mark' = [o \in nfaStates |-> m_mark[o]]
    /\ exiting' = {t \in exiting : t[1] \in nfaStates}
    /\ incoming' = {t \in incoming : t[1] \in nfaStates}
    /\ m_set' = <<>>
    /\ nextId' = Cardinality(nfaStates)
    /\ lastCall' = <<>>
    /\ pc' = "clone"
    /\ UNCHANGED <<nfaStates, nfaInitial, sc, relocation_sequence, calls, processed>>

(* ProblemSolver::solve: the statistics are reset, then run is called. *)
Solve ==
    /\ EnterRun
    /\ stats' = NoStats
    /\ UNCHANGED previous

(* A caller that calls run again on the same instance. *)
RunAgain ==
    /\ EnterRun
    /\ UNCHANGED <<stats, previous>>

(* The automata the calls are made on: those with at most one transition,   *)
(* the automaton of main() and the relocation automata.                      *)
ProblemAutomata ==
    {[states |-> 0..(NumStates - 1), finals |-> {NumStates - 1}, trans |-> T] :
        T \in TransSets(1)}
    \cup MainAutomaton \cup RelocationAutomata

BuildProblem == \E in \in ProblemAutomata : Build(in)

CallNext ==
    \/ BuildProblem
    \/ RunSubsetConstruction
    \/ Run
    \/ Solve
    \/ RunAgain

CallSpec == Init /\ [][CallNext]_vars

-----------------------------------------------------------------------------
(* The two results side by side *)

(* State::hasSameTransitionsNamesOf, called on the state of the SC automaton  *)
(* named state with a state of the QSC automaton as other_state.              *)
hasSameTransitionsNamesOf(state, other_state) ==
    LET mine == {t \in sc.trans : t[1] = state}
        others == {t \in exiting : t[1] = other_state}
    IN  /\ Cardinality(mine) = Cardinality(others)
        /\ \A label \in {t[2] : t \in mine} :
             LET children == {t[3] : t \in {u \in mine : u[2] = label}}
                 other_children == {t[3] : t \in {u \in others : u[2] = label}}
             IN  /\ Cardinality(children) = Cardinality(other_children)
                 /\ \A child \in children :
                      \E other_child \in other_children : m_name[other_child] = child

(* Automaton::operator== with the SC automaton on the left and the QSC        *)
(* automaton on the right.                                                    *)
AutomatonEquals ==
    /\ sc.initial = m_name[dfaInitial]
    /\ Cardinality(sc.states) = Cardinality(dfaStates)
    /\ \A state \in sc.states :
         \E sakename_state \in getStatesByName(Heap, state.name) :
             hasSameTransitionsNamesOf(state.name, sakename_state)

(* The states a path of transitions leads to from the states in seen. *)
RECURSIVE ReachableFrom(_, _)
ReachableFrom(ex, seen) ==
    LET more == seen \cup {t[3] : t \in {u \in ex : u[1] \in seen}}
    IN  IF more = seen THEN seen ELSE ReachableFrom(ex, more)

(* The length of a shortest path of transitions from root to each state it    *)
(* reaches.                                                                   *)
RECURSIVE ShortestPaths(_, _, _, _)
ShortestPaths(ex, dist, frontier, k) ==
    IF frontier = {} THEN dist
    ELSE LET here == dist @@ [s \in frontier |-> k]
             next == {t[3] : t \in {u \in ex : u[1] \in frontier}} \ DOMAIN here
         IN  ShortestPaths(ex, here, next, k + 1)

ShortestPathLength(ex, root) == ShortestPaths(ex, <<>>, {root}, 0)

(* The input NFA as the caller sees it. *)
NfaView ==
    [states |-> nfaStates,
     initial |-> nfaInitial,
     name |-> [o \in nfaStates |-> m_name[o]],
     final |-> [o \in nfaStates |-> m_final[o]],
     level |-> [o \in nfaStates |-> m_level[o]],
     exiting |-> {t \in exiting : t[1] \in nfaStates},
     incoming |-> {t \in incoming : t[1] \in nfaStates}]

NfaTransitions == {t \in exiting : t[1] \in nfaStates}
DfaTransitions == {t \in exiting : t[1] \in dfaStates}
Returned == pc = "done"

-----------------------------------------------------------------------------
(* The operations of BidirectionalState and of Automaton, called one at a    *)
(* time by a caller.  nfaStates is m_states and nfaInitial is                *)
(* m_initial_state of the automaton the caller builds; dfaStates and         *)
(* dfaInitial are those of the automaton that Automaton::clone returns.      *)
(* lastCall is <<name>>, or <<name, result>> for a call that returns a       *)
(* boolean, of the call that returned last.                                  *)
(* The caller adds a state to the automaton once: m_states is a multiset,    *)
(* and the model keeps it as a set.                                          *)

Objects == DOMAIN m_name

AutomatonHeap == [Heap EXCEPT !.states = nfaStates]

StoreAutomaton(h) ==
    /\ m_name' = h.name
    /\ m_final' = h.final
    /\ m_level' = h.level
    /\ m_extension' = h.extension
    /\ m_mark' = h.mark
    /\ exiting' = h.exiting
    /\ incoming' = h.incoming
    /\ nfaStates' = h.states
    /\ nextId' = h.next

(* new BidirectionalState(name, final) *)
BidirectionalState(h) ==
    [h EXCEPT !.name = @ @@ (h.next :> StateName(h.next)),
              !.final = @ @@ (h.next :> (h.next = NumStates - 1)),
              !.level = @ @@ (h.next :> DEFAULT_VOID_LEVEL),
              !.extension = @ @@ (h.next :> {}),
              !.mark = @ @@ (h.next :> FALSE),
              !.next = @ + 1]

(* The model follows the caller up to MaxTrans transitions. *)
WithinTransitions(h) == Cardinality(h.exiting) <= MaxTrans

NewState ==
    /\ pc = "nfa"
    /\ nextId < NumStates
    /\ StoreAutomaton(BidirectionalState(AutomatonHeap))
    /\ lastCall' = <<"BidirectionalState">>
    /\ UNCHANGED <<nfaInitial, dfaStates, dfaInitial, m_set, stats, sc, relocation_sequence, previous, calls, processed, pc>>

(* BidirectionalState::connectChild; it returns true when it adds the edge. *)
ConnectChild(parent, label, child) ==
    /\ pc = "nfa"
    /\ LET h == connectChild(AutomatonHeap, {<<parent, label, child>>})
       IN  /\ WithinTransitions(h)
           /\ StoreAutomaton(h)
    /\ lastCall' = <<"connectChild", <<parent, label, child>> \notin exiting>>
    /\ UNCHANGED <<nfaInitial, dfaStates, dfaInitial, m_set, stats, sc, relocation_sequence, previous, calls, processed, pc>>

(* BidirectionalState::disconnectChild; it returns true when it removes the  *)
(* edge.                                                                      *)
DisconnectChild(parent, label, child) ==
    /\ pc = "nfa"
    /\ StoreAutomaton(disconnectChild(AutomatonHeap, {<<parent, label, child>>}))
    /\ lastCall' = <<"disconnectChild", <<parent, label, child>> \in exiting>>
    /\ UNCHANGED <<nfaInitial, dfaStates, dfaInitial, m_set, stats, sc, relocation_sequence, previous, calls, processed, pc>>

(* BidirectionalState::detachAllTransitions *)
DetachAllTransitions(s) ==
    /\ pc = "nfa"
    /\ StoreAutomaton(detachAllTransitions(AutomatonHeap, s))
    /\ lastCall' = <<"detachAllTransitions">>
    /\ UNCHANGED <<nfaInitial, dfaStates, dfaInitial, m_set, stats, sc, relocation_sequence, previous, calls, processed, pc>>

(* State::copyExitingTransitionsOf *)
copyExitingTransitionsOf(h, this, other_state) ==
    connectChild(h, {<<this, t[2], t[3]>> : t \in {u \in h.exiting : u[1] = other_state}})

(* BidirectionalState::copyIncomingTransitionsOf *)
copyIncomingTransitionsOf(h, this, other_state) ==
    connectChild(h, {<<t[3], t[2], this>> : t \in {u \in h.incoming : u[1] = other_state}})

(* BidirectionalState::copyAllTransitionsOf *)
copyAllTransitionsOf(h, this, other_state) ==
    copyIncomingTransitionsOf(copyExitingTransitionsOf(h, this, other_state), this, other_state)

CopyAllTransitionsOf(this, other_state) ==
    /\ pc = "nfa"
    /\ LET h == copyAllTransitionsOf(AutomatonHeap, this, other_state)
       IN  /\ WithinTransitions(h)
           /\ StoreAutomaton(h)
    /\ lastCall' = <<"copyAllTransitionsOf">>
    /\ UNCHANGED <<nfaInitial, dfaStates, dfaInitial, m_set, stats, sc, relocation_sequence, previous, calls, processed, pc>>

StateNext ==
    \/ NewState
    \/ \E parent, child \in Objects : \E label \in Alphabet : ConnectChild(parent, label, child)
    \/ \E parent, child \in Objects : \E label \in Alphabet : DisconnectChild(parent, label, child)
    \/ \E s \in Objects : DetachAllTransitions(s)
    \/ \E this, other_state \in Objects : CopyAllTransitionsOf(this, other_state)

StateSpec == Init /\ [][StateNext]_vars

(* Automaton::addState, with a new state or with a state that exists and is  *)
(* not in the automaton.                                                     *)
AddState(s) ==
    /\ pc = "nfa"
    /\ s \notin nfaStates
    /\ IF s \in Objects
       THEN StoreAutomaton([AutomatonHeap EXCEPT !.states = @ \cup {s}])
       ELSE /\ s = nextId
            /\ nextId < NumStates
            /\ StoreAutomaton([BidirectionalState(AutomatonHeap) EXCEPT !.states = @ \cup {s}])
    /\ lastCall' = <<"addState">>
    /\ UNCHANGED <<nfaInitial, dfaStates, dfaInitial, m_set, stats, sc, relocation_sequence, previous, calls, processed, pc>>

(* Automaton::removeState: the transitions of s are detached, s is erased    *)
(* from m_states, and the call returns true.                                 *)
RemoveState(s) ==
    /\ pc = "nfa"
    /\ StoreAutomaton(removeState(AutomatonHeap, {s}))
    /\ lastCall' = <<"removeState", TRUE>>
    /\ UNCHANGED <<nfaInitial, dfaStates, dfaInitial, m_set, stats, sc, relocation_sequence, previous, calls, processed, pc>>

(* BidirectionalState::initLevelsRecursively(0) on root. *)
initLevelsRecursively(h, root) ==
    [h EXCEPT !.level = initDistancesRecursively([@ EXCEPT ![root] = 0], h.exiting, <<root>>)]

(* Automaton::setInitialState *)
SetInitialState(s) ==
    /\ pc = "nfa"
    /\ IF s \in nfaStates
       THEN /\ nfaInitial' = s
            /\ StoreAutomaton(initLevelsRecursively(AutomatonHeap, s))
       ELSE /\ StoreAutomaton(AutomatonHeap)
            /\ UNCHANGED nfaInitial
    /\ lastCall' = <<"setInitialState">>
    /\ UNCHANGED <<dfaStates, dfaInitial, m_set, stats, sc, relocation_sequence, previous, calls, processed, pc>>

(* A connectStates that connects the two states whether or not they are     *)
(* members, and returns true.                                               *)
ConnectStates_unchecked(from, to, label) ==
    /\ pc = "nfa"
    /\ LET h == connectChild(AutomatonHeap, {<<from, label, to>>})
       IN  /\ WithinTransitions(h)
           /\ StoreAutomaton(h)
           /\ lastCall' = <<"connectStates", TRUE>>
    /\ UNCHANGED <<nfaInitial, dfaStates, dfaInitial, m_set, stats, sc, relocation_sequence, previous, calls, processed, pc>>

(* Automaton::connectStates; it returns true when both states are members. *)
ConnectStates(from, to, label) ==
    /\ pc = "nfa"
    /\ LET members == from \in nfaStates /\ to \in nfaStates
           h == IF members
                THEN connectChild(AutomatonHeap, {<<from, label, to>>})
                ELSE AutomatonHeap
       IN  /\ WithinTransitions(h)
           /\ StoreAutomaton(h)
           /\ lastCall' = <<"connectStates", members>>
    /\ UNCHANGED <<nfaInitial, dfaStates, dfaInitial, m_set, stats, sc, relocation_sequence, previous, calls, processed, pc>>

(* Automaton::removeUnreachableStates: the states that m_initial_state does  *)
(* not reach are erased from m_states, with their transitions left in place, *)
(* and returned.                                                             *)
RemoveUnreachableStates ==
    /\ pc = "nfa"
    /\ LET reachable == IF nfaInitial \in nfaStates
                        THEN ReachableFrom({t \in exiting : t[3] \in nfaStates}, {nfaInitial})
                        ELSE {}
           unreachable == nfaStates \ reachable
       IN  /\ StoreAutomaton([AutomatonHeap EXCEPT !.states = @ \ unreachable])
           /\ lastCall' = <<"removeUnreachableStates", unreachable>>
    /\ UNCHANGED <<nfaInitial, dfaStates, dfaInitial, m_set, stats, sc, relocation_sequence, previous, calls, processed, pc>>

(* s->clone() for every state of the sequence states: a new state with the   *)
(* name, the final flag and the level of s, added to the clone.  The result  *)
(* is the heap and the correspondence.                                       *)
RECURSIVE cloneEachState(_, _, _)
cloneEachState(h, correspondence, states) ==
    IF states = <<>> THEN [heap |-> h, correspondence |-> correspondence]
    ELSE LET s == Head(states)
             new_state == h.next
         IN  cloneEachState(
                 [h EXCEPT !.name = @ @@ (new_state :> h.name[s]),
                           !.final = @ @@ (new_state :> h.final[s]),
                           !.level = @ @@ (new_state :> h.level[s]),
                           !.extension = @ @@ (new_state :> {}),
                           !.mark = @ @@ (new_state :> FALSE),
                           !.next = @ + 1],
                 correspondence @@ (s :> new_state), Tail(states))

(* The second loop of Automaton::clone for the states of S: connectStates in *)
(* the clone for every exiting transition whose child has a correspondent.   *)
replayTransitions(h, correspondence, S) ==
    connectChild(h, {<<correspondence[t[1]], t[2], correspondence[t[3]]>> :
                        t \in {u \in h.exiting : /\ u[1] \in S
                                                  /\ u[3] \in DOMAIN correspondence}})

(* Automaton::clone.  The second loop visits m_states in the order of the    *)
(* addresses; earlier is the set of states it visits before the initial      *)
(* state, whose transitions are in the clone when setInitialState computes   *)
(* the levels.                                                               *)
CloneAutomaton(earlier) ==
    /\ pc = "nfa"
    /\ earlier \subseteq nfaStates \ {nfaInitial}
    /\ nfaInitial \notin nfaStates => earlier = {}
    /\ LET cloned == cloneEachState(AutomatonHeap, <<>>, SetToSeq(nfaStates))
           correspondence == cloned.correspondence
           first == replayTransitions(cloned.heap, correspondence, earlier)
           levelled == IF nfaInitial \in nfaStates
                       THEN initLevelsRecursively(first, correspondence[nfaInitial])
                       ELSE first
           clone == replayTransitions(levelled, correspondence, nfaStates \ earlier)
       IN  /\ StoreAutomaton(clone)
           /\ dfaStates' = {correspondence[s] : s \in nfaStates}
           /\ dfaInitial' = IF nfaInitial \in nfaStates
                            THEN correspondence[nfaInitial] ELSE NULL
    /\ lastCall' = <<"clone">>
    /\ pc' = "cloned"
    /\ UNCHANGED <<nfaInitial, m_set, stats, sc, relocation_sequence, previous, calls, processed>>

(* After the clone, removeState on a state of the original or of the clone. *)
RemoveStateAfterClone(s) ==
    /\ pc = "cloned"
    /\ IF s \in dfaStates
       THEN /\ Store(removeState(Heap, {s}))
            /\ UNCHANGED nfaStates
       ELSE /\ StoreAutomaton(removeState(AutomatonHeap, {s}))
            /\ UNCHANGED <<dfaStates, m_set>>
    /\ lastCall' = <<"removeState", TRUE>>
    /\ pc' = "mutated"
    /\ UNCHANGED <<nfaInitial, dfaInitial, stats, sc, relocation_sequence, previous, calls, processed>>

(* The labels of the transitions of the automaton under construction. *)
AutomatonLabels == {<<97>>}

AutomatonNext ==
    \/ \E s \in Objects \cup {nextId} : AddState(s)
    \/ \E s \in Objects : RemoveState(s)
    \/ \E s \in Objects : SetInitialState(s)
    \/ \E from, to \in Objects : \E label \in AutomatonLabels :
          ConnectStates(from, to, label)
    \/ RemoveUnreachableStates
    \/ \E earlier \in SUBSET nfaStates : CloneAutomaton(earlier)
    \/ \E s \in nfaStates \cup dfaStates : RemoveStateAfterClone(s)

AutomatonSpec == Init /\ [][AutomatonNext]_vars

-----------------------------------------------------------------------------
(* QuickSubsetConstruction::runDistanceRelocation, one iteration of its loop *)
(* at a time, on the graphs of NumStates states with up to                   *)
(* MaxRelocationTrans transitions, cycles and self-loops included, and with  *)
(* every distance up to MaxDistance on each state.  dfaStates holds the      *)
(* states of the graph.                                                      *)

MaxRelocationTrans == 3
MaxDistance == 2

RelocationLabels == {<<97>>}

RelocationTrans == (0..(NumStates - 1)) \X RelocationLabels \X (0..(NumStates - 1))

RelocationGraphs == {T \in SUBSET RelocationTrans : Cardinality(T) <= MaxRelocationTrans}

(* The states and transitions that a run has built, with their distances. *)
RelocationGraph(T, level) ==
    /\ pc = "nfa"
    /\ dfaStates' = 0..(NumStates - 1)
    /\ m_name' = [o \in 0..(NumStates - 1) |-> StateName(o)]
    /\ m_final' = [o \in 0..(NumStates - 1) |-> FALSE]
    /\ m_level' = level
    /\ m_extension' = [o \in 0..(NumStates - 1) |-> {}]
    /\ m_mark' = [o \in 0..(NumStates - 1) |-> FALSE]
    /\ exiting' = T
    /\ incoming' = {<<t[3], t[2], t[1]>> : t \in T}
    /\ nextId' = NumStates
    /\ pc' = "graph"
    /\ UNCHANGED <<nfaStates, nfaInitial, dfaInitial, m_set, stats, sc, relocation_sequence, previous,
                   calls, processed, lastCall>>

(* runDistanceRelocation(state, new_distance), lines 751-756: the list holds *)
(* the one pair.  lastCall keeps the distances at the call.                  *)
RunDistanceRelocation(state, new_distance) ==
    /\ pc = "graph"
    /\ relocation_sequence' = <<<<state, new_distance>>>>
    /\ lastCall' = <<"runDistanceRelocation", m_level>>
    /\ pc' = "relocation"
    /\ UNCHANGED <<nfaStates, nfaInitial, dfaStates, dfaInitial, m_name, m_final, m_level,
                   m_extension, m_mark, exiting, incoming, m_set, stats, sc, nextId, calls,
                   processed, previous>>

(* One iteration of the loop of lines 720-741. *)
RelocationLoop ==
    /\ pc = "relocation"
    /\ relocation_sequence # <<>>
    /\ LET step == relocationStep(m_level, exiting, relocation_sequence)
       IN  /\ m_level' = step.level
           /\ relocation_sequence' = step.sequence
    /\ UNCHANGED <<nfaStates, nfaInitial, dfaStates, dfaInitial, m_name, m_final,
                   m_extension, m_mark, exiting, incoming, m_set, stats, sc, nextId, calls,
                   processed, previous, lastCall, pc>>

(* The list is empty: the call returns. *)
RelocationReturn ==
    /\ pc = "relocation"
    /\ relocation_sequence = <<>>
    /\ pc' = "relocated"
    /\ UNCHANGED <<nfaStates, nfaInitial, dfaStates, dfaInitial, m_name, m_final, m_level,
                   m_extension, m_mark, exiting, incoming, m_set, stats, sc, relocation_sequence, previous,
                   nextId, calls, processed, lastCall>>

RelocationNext ==
    \/ \E T \in RelocationGraphs : \E level \in [0..(NumStates - 1) -> 0..MaxDistance] :
         RelocationGraph(T, level)
    \/ \E state \in dfaStates : \E new_distance \in 0..MaxDistance :
         RunDistanceRelocation(state, new_distance)
    \/ RelocationLoop
    \/ RelocationReturn

(* The call is one thread: it takes its next iteration as long as it has one. *)
RelocationSpec ==
    Init /\ [][RelocationNext]_vars /\ WF_vars(RelocationLoop) /\ WF_vars(RelocationReturn)

-----------------------------------------------------------------------------
(* QuickSubsetConstruction::run called twice on one NFA, as ProblemSolver    *)
(* does for two problems on it, each call with the states of the NFA in an   *)
(* order of its own: the order of m_states is the order of the addresses of  *)
(* the states, which the allocator chooses.                                  *)

MaxOrderTrans == 2

OrderAutomata ==
    {[states |-> 0..(NumStates - 1), finals |-> {NumStates - 1}, trans |-> T] :
        T \in TransSets(MaxOrderTrans)}
    \cup RelocationAutomata

(* The enumerations of the states of S. *)
Orders(S) ==
    {order \in [1..Cardinality(S) -> S] :
        \A i, j \in 1..Cardinality(S) : order[i] = order[j] => i = j}

(* What a caller sees of the DFA that run returned, and the scenario counts. *)
ReturnedDfa ==
    [initial |-> m_name[dfaInitial],
     states |-> {<<m_name[d], m_final[d]>> : d \in dfaStates},
     trans |-> {<<m_name[t[1]], t[2], m_name[t[3]]>> : t \in DfaTransitions},
     counts |-> <<stats.s0, stats.s1, stats.s2>>]

BuildOrdered == \E in \in OrderAutomata : Build(in)

(* The next problem on the same NFA: the DFA of the call before is kept for  *)
(* the comparison.                                                           *)
SolveAgain ==
    /\ EnterRun
    /\ stats' = NoStats
    /\ previous' = ReturnedDfa

OrderNext ==
    \/ BuildOrdered
    \/ RunSubsetConstruction
    \/ \E nfa_states \in Orders(nfaStates) : \E hi \in BOOLEAN : CloneInOrder(nfa_states, hi)
    \/ \E hi \in BOOLEAN : Scenario0(hi)
    \/ SkipScenario0
    \/ \E hi \in BOOLEAN : Scenario1(hi)
    \/ \E hi \in BOOLEAN : Scenario2(hi)
    \/ NoScenario
    \/ Return
    \/ SolveAgain

OrderSpec == Init /\ [][OrderNext]_vars

-----------------------------------------------------------------------------
(* Claims *)

(* C1: for every input NFA the DFA returned by QuickSubsetConstruction::run   *)
(* equals, by Automaton::operator==, the DFA returned by                      *)
(* SubsetConstruction::run on the same NFA.                                   *)
C1_QscEqualsSc == Returned => AutomatonEquals

(* C2: in the DFA returned by QuickSubsetConstruction::run every state has at *)
(* most one child under every label but epsilon.                             *)
C2_Deterministic ==
    Returned =>
        \A s \in dfaStates : \A t \in DfaTransitions :
            (t[1] = s /\ t[2] # EPSILON) => getChildren(exiting, s, t[2]) = {t[3]}

C2_Witness ==
    /\ Returned
    /\ stats.s2 > 0
    /\ \E t \in NfaTransitions :
         t[2] # EPSILON /\ Cardinality(getChildren(exiting, t[1], t[2])) > 1

(* C3: when the epsilon transitions of the NFA all leave its initial state,   *)
(* no state of the DFA returned by QuickSubsetConstruction::run has an        *)
(* outgoing epsilon transition.                                               *)
EpsilonOnlyOnInitial == \A t \in NfaTransitions : t[2] = EPSILON => t[1] = nfaInitial

C3_EpsilonFree ==
    (Returned /\ EpsilonOnlyOnInitial) => \A t \in DfaTransitions : t[2] # EPSILON

C3_Witness ==
    /\ Returned
    /\ EpsilonOnlyOnInitial
    /\ stats.s0 = 1
    /\ \E t \in NfaTransitions : t[2] = EPSILON /\ t[3] # nfaInitial

(* C4: QuickSubsetConstruction::run terminates: the worklist of singularities *)
(* is eventually empty and the DFA is returned.                               *)
C4_Terminates == (pc = "clone") ~> (Returned /\ m_set = <<>>)

C4_Witness == Returned /\ m_set = <<>> /\ stats.total > stats.checkup

(* C5: after QuickSubsetConstruction::run returns, no two distinct states of  *)
(* the DFA have the same name.                                                *)
C5_NoDuplicateNames ==
    Returned => \A a \in dfaStates : \A b \in dfaStates : m_name[a] = m_name[b] => a = b

C5_Witness ==
    /\ Returned
    /\ stats.s1 > 0
    /\ stats.s2 > 0
    /\ \E d \in dfaStates : Cardinality(m_extension[d]) > 1

(* C6: after QuickSubsetConstruction::run returns, the distance of every      *)
(* state of the DFA reachable from the initial state is the length of a       *)
(* shortest path of transitions from the initial state to it.                 *)
C6_DistancesAreShortest ==
    Returned =>
        LET shortest == ShortestPathLength(exiting, dfaInitial)
        IN  \A s \in DOMAIN shortest : m_level[s] = shortest[s]

(* C7: every state of the DFA returned by QuickSubsetConstruction::run is     *)
(* reachable from its initial state, also when the NFA has states its         *)
(* initial state does not reach.                                              *)
C7_AllStatesReachable ==
    Returned => dfaStates \subseteq ReachableFrom(exiting, {dfaInitial})

(* C8: QuickSubsetConstruction::run leaves the NFA unchanged (states, names,  *)
(* final flags, transitions, initial state, distances), and no transition of  *)
(* the DFA points to a state of the NFA.                                      *)
C8_NfaUnchanged ==
    [][pc \notin {"nfa", "sc"} => /\ NfaView' = NfaView
                                /\ \A t \in exiting' : t[1] \notin nfaStates => t[3] \notin nfaStates]_vars

C8_Witness ==
    /\ Returned
    /\ stats.s0 > 0
    /\ stats.s1 > 0
    /\ stats.s2 > 0
    /\ NfaTransitions # {}

(* C9: on the automaton of main() SubsetConstruction::run and                 *)
(* QuickSubsetConstruction::run return automata with the same number of       *)
(* states, the same final states and the same transition table.              *)
C9_MainAutomatonAgrees ==
    (Returned /\ \E in \in MainAutomaton : NfaTransitions = in.trans) =>
        /\ Cardinality(sc.states) = Cardinality(dfaStates)
        /\ {s.name : s \in {q \in sc.states : q.final}}
               = {m_name[d] : d \in {q \in dfaStates : m_final[q]}}
        /\ sc.trans = {<<m_name[t[1]], t[2], m_name[t[3]]>> : t \in DfaTransitions}

C9_Witness ==
    /\ Returned
    /\ NfaTransitions = MainTransitions
    /\ Cardinality(dfaStates) = 4
    /\ {m_extension[d] : d \in {q \in dfaStates : m_final[q]}} = {{0, 2}, {1, 2, 3}}
    /\ stats.s0 = 1
    /\ stats.s2 = 3

(* C10: on a deterministic NFA without epsilon transitions,                   *)
(* QuickSubsetConstruction::run returns one state per state of the NFA, with  *)
(* that state alone as extension, the same final flag and the same            *)
(* transitions; it processes no Scenario-S2 singularity and as many           *)
(* Scenario-S1 singularities as the first phase detected.                     *)
DeterministicInput ==
    \A t \in NfaTransitions : t[2] # EPSILON /\ getChildren(exiting, t[1], t[2]) = {t[3]}

C10_DeterministicInputIsCopied ==
    (Returned /\ DeterministicInput) =>
        /\ Cardinality(dfaStates) = Cardinality(nfaStates)
        /\ \A o \in nfaStates :
             \E d \in dfaStates : m_extension[d] = {o} /\ m_final[d] = m_final[o]
        /\ {<<m_extension[t[1]], t[2], m_extension[t[3]]>> : t \in DfaTransitions}
               = {<<{t[1]}, t[2], {t[3]}>> : t \in NfaTransitions}
        /\ stats.s2 = 0
        /\ stats.s1 = stats.checkup

C10_Witness ==
    /\ Returned
    /\ DeterministicInput
    /\ {<<0, <<97>>, 1>>, <<1, <<98>>, 2>>} \subseteq NfaTransitions


-----------------------------------------------------------------------------
(* The subset automaton of the textbook, defined without the worklist: the   *)
(* epsilon closure as reachability over epsilon paths, and the extensions as *)
(* the least set closed under the l-closures.                                *)

EpsilonEdges == {<<t[1], t[3]>> : t \in {u \in NfaTransitions : u[2] = EPSILON}}

RECURSIVE EpsilonPath(_, _, _)
EpsilonPath(from, to, k) ==
    \/ from = to
    \/ k > 0 /\ \E mid \in nfaStates : <<from, mid>> \in EpsilonEdges /\ EpsilonPath(mid, to, k - 1)

TextbookEpsilonClosure(X) ==
    {s \in nfaStates : \E x \in X : EpsilonPath(x, s, Cardinality(nfaStates))}

NfaLabels == {t[2] : t \in NfaTransitions} \ {EPSILON}

TextbookMove(X, l) ==
    TextbookEpsilonClosure({t[3] : t \in {u \in NfaTransitions : u[1] \in X /\ u[2] = l}})

RECURSIVE TextbookExtensions(_)
TextbookExtensions(R) ==
    LET more == R \cup ({TextbookMove(X, l) : X \in R, l \in NfaLabels} \ {{}})
    IN  IF more = R THEN R ELSE TextbookExtensions(more)

TextbookInitial == TextbookEpsilonClosure({nfaInitial})

TextbookStates == TextbookExtensions({TextbookInitial})

TextbookTransitions ==
    {<<createNameFromExtension(m_name, q[1]), q[2],
       createNameFromExtension(m_name, TextbookMove(q[1], q[2]))>> :
        q \in {r \in TextbookStates \X NfaLabels : TextbookMove(r[1], r[2]) # {}}}

ScReturned == pc \notin {"nfa", "sc"}

(* C11: SubsetConstruction::run returns the textbook subset automaton: the   *)
(* initial state is the epsilon closure of the NFA's initial state, the      *)
(* states are exactly the non-empty extensions reached from it by repeated   *)
(* l-closure, each once, and s -l-> t exactly when the l-closure of s is     *)
(* non-empty and is the extension of t.                                      *)
C11_ScIsTextbook ==
    ScReturned =>
        /\ \E d \in sc.states : d.name = sc.initial /\ d.extension = TextbookInitial
        /\ {d.extension : d \in sc.states} = TextbookStates
        /\ Cardinality(sc.states) = Cardinality(TextbookStates)
        /\ \A d \in sc.states : d.name = createNameFromExtension(m_name, d.extension)
        /\ sc.trans = TextbookTransitions

C11_Witness ==
    /\ ScReturned
    /\ Cardinality(sc.states) >= 3
    /\ \E d \in sc.states : Cardinality(d.extension) >= 2
    /\ \E t \in sc.trans : t[1] # t[3]
    /\ \E t \in NfaTransitions : t[2] = EPSILON /\ t[1] # nfaInitial

-----------------------------------------------------------------------------
NfaBuilt == pc # "nfa"

(* C12: ConstructedState::computeEpsilonClosure is idempotent and extensive: *)
(* for every extension X of the automaton, epsilon cycles included, the      *)
(* closure of the closure of X is the closure of X, and X is a subset of it. *)
C12_ClosureIdempotent ==
    NfaBuilt =>
        \A X \in SUBSET nfaStates :
            LET closure == computeEpsilonClosure(NfaTransitions, X)
            IN  /\ X \subseteq closure
                /\ computeEpsilonClosure(NfaTransitions, closure) = closure

(* An epsilon cycle through two states, and an extension two epsilon steps   *)
(* away from a state of its closure.                                         *)
C12_Witness ==
    /\ NfaBuilt
    /\ \E a, b \in nfaStates :
        /\ a # b
        /\ <<a, EPSILON, b>> \in NfaTransitions
        /\ <<b, EPSILON, a>> \in NfaTransitions
    /\ \E X \in SUBSET nfaStates :
        computeEpsilonClosure_once(NfaTransitions, X)
            # computeEpsilonClosure(NfaTransitions, X)

-----------------------------------------------------------------------------
(* The singularities a run can insert: a state of the DFA and a label. *)
Labels == {t[2] : t \in exiting}

Singularities == dfaStates \X Labels

Present(x) == \E i \in 1..Len(m_set) : m_set[i] = x

IsHandled == pc \in {"s0", "loop"}

(* C13: during a run of QSC the worklist never holds two entries with the    *)
(* same (state, label); inserting a (state, label) that is present leaves    *)
(* the list unchanged, and inserting one that is absent adds it.             *)
C13_WorklistDuplicateFree ==
    IsHandled =>
        /\ \A i, j \in 1..Len(m_set) : i < j => m_set[i] # m_set[j]
        /\ \A x \in Singularities : \A hi \in BOOLEAN :
            LET after == insert(Heap, x, hi).set
            IN  IF Present(x)
                THEN after = m_set
                ELSE /\ Len(after) = Len(m_set) + 1
                     /\ \E i \in 1..Len(after) : after[i] = x

(* C14: whenever the loop is about to pop, the first singularity of the      *)
(* worklist is a minimum of the worklist under (distance, name, label) with  *)
(* the distances the states have at that moment.                             *)
C14_PopIsMinimum ==
    (pc = "loop" /\ m_set # <<>>) =>
        \A i \in 2..Len(m_set) : ~ compare(Heap, m_set[i], m_set[1])

-----------------------------------------------------------------------------
(* C15: after every completed call of QuickSubsetConstruction::run the       *)
(* statistics describe that call only: the counters of S0, S1 and S2 are the  *)
(* numbers of singularities the call processed under each scenario and the    *)
(* total is their sum, also when run is called again on the same instance.    *)
C15_StatsDescribeLastCall ==
    Returned =>
        /\ stats.s0 = processed.s0
        /\ stats.s1 = processed.s1
        /\ stats.s2 = processed.s2
        /\ stats.total = processed.s0 + processed.s1 + processed.s2

-----------------------------------------------------------------------------
(* C16: after any sequence of addState, removeState, setInitialState,        *)
(* connectStates and removeUnreachableStates, the initial state of the       *)
(* automaton, if set, is a member of its states, also after removeState of   *)
(* the initial state.                                                        *)
C16_InitialIsMember == nfaInitial # NULL => nfaInitial \in nfaStates

(* The levels of the states of the automaton are the lengths of the shortest *)
(* paths from the initial state, and DEFAULT_VOID_LEVEL where there is none. *)
LevelsAreDistances ==
    LET shortest == ShortestPathLength(exiting, nfaInitial)
    IN  \A o \in nfaStates :
            m_level[o] = IF o \in DOMAIN shortest THEN shortest[o] ELSE DEFAULT_VOID_LEVEL

(* C17: after any call of Automaton::setInitialState with a member state,    *)
(* a second call with another state included, every state reachable from    *)
(* the new initial state stores its shortest distance from it and every      *)
(* other state stores the undefined distance.                                *)
C17_SetInitialStateSetsDistances ==
    [][\A s \in nfaStates : SetInitialState(s) => LevelsAreDistances']_vars

(* No transition of any state starts or ends in s. *)
Detached(s) ==
    \A t \in exiting \cup incoming : t[1] # s /\ t[3] # s

(* C18: after Automaton::removeState(s), s is not a member, s has no         *)
(* outgoing and no incoming transitions, and no other state lists s among    *)
(* its children or its parents, self-loops on s included.                    *)
C18_RemoveStateDetaches ==
    [][\A s \in Objects : RemoveState(s) => (s \notin nfaStates /\ Detached(s))']_vars

C18_Witness ==
    /\ pc = "nfa"
    /\ lastCall = <<"removeState", TRUE>>
    /\ nfaInitial \in nfaStates
    /\ \E s \in Objects \ nfaStates : Detached(s)
    /\ exiting # {}

(* What a caller sees of the objects of S. *)
ViewOf(S) ==
    [name |-> [o \in S |-> m_name[o]],
     final |-> [o \in S |-> m_final[o]],
     level |-> [o \in S |-> m_level[o]],
     exiting |-> {t \in exiting : t[1] \in S},
     incoming |-> {t \in incoming : t[1] \in S}]

(* The clone is the original up to the correspondence f of their states. *)
Isomorphic ==
    \E f \in [nfaStates -> dfaStates] :
        /\ \A d \in dfaStates : \E s \in nfaStates : f[s] = d
        /\ \A a, b \in nfaStates : f[a] = f[b] => a = b
        /\ \A a \in nfaStates : m_name[f[a]] = m_name[a] /\ m_final[f[a]] = m_final[a]
        /\ \A a, b \in nfaStates : \A l \in AutomatonLabels :
             <<a, l, b>> \in exiting <=> <<f[a], l, f[b]>> \in exiting
        /\ IF nfaInitial = NULL THEN dfaInitial = NULL
           ELSE nfaInitial \in nfaStates /\ dfaInitial = f[nfaInitial]

(* The states of the clone are objects of their own, with transitions among  *)
(* themselves only.                                                          *)
SharesNoState ==
    /\ dfaStates \cap nfaStates = {}
    /\ \A t \in exiting \cup incoming : t[1] \in dfaStates <=> t[3] \in dfaStates

(* C19: Automaton::clone returns an automaton isomorphic to the original     *)
(* (names, final flags, transitions, the clone of the initial state as       *)
(* initial state) that shares no state with it, so that a later mutation of  *)
(* one leaves the other unchanged; the call leaves the original unchanged.   *)
C19_CloneIsIsomorphic ==
    [][\A original \in {Objects} : \A copy \in {dfaStates} :
       /\ (pc = "nfa" /\ pc' = "cloned") =>
            /\ Isomorphic'
            /\ SharesNoState'
            /\ dfaStates' \cap original = {}
            /\ nfaStates' = nfaStates /\ nfaInitial' = nfaInitial
            /\ ViewOf(original)' = ViewOf(original)
       /\ (pc = "cloned" /\ pc' = "mutated") =>
            \/ /\ dfaStates' = dfaStates /\ dfaInitial' = dfaInitial
               /\ ViewOf(copy)' = ViewOf(copy)
            \/ /\ nfaStates' = nfaStates /\ nfaInitial' = nfaInitial
               /\ ViewOf(original \ copy)' = ViewOf(original \ copy)
      ]_vars

(* The two directions of the transitions agree. *)
Bidirectional ==
    /\ \A t \in exiting : <<t[3], t[2], t[1]>> \in incoming
    /\ \A t \in incoming : <<t[3], t[2], t[1]>> \in exiting

(* C20: after any sequence of connectChild, disconnectChild,                 *)
(* detachAllTransitions and copyAllTransitionsOf on bidirectional states, c  *)
(* is a child of p under l exactly when p is a parent of c under l; and      *)
(* connectChild on an edge that exists changes nothing and returns false.    *)
C20_DirectionsAgree ==
    [][/\ Bidirectional'
       /\ \A parent, child \in Objects : \A label \in Alphabet :
            (ConnectChild(parent, label, child) /\ <<parent, label, child>> \in exiting)
                => /\ exiting' = exiting
                   /\ incoming' = incoming
                   /\ lastCall' = <<"connectChild", FALSE>>
      ]_vars

C20_Witness ==
    /\ lastCall = <<"connectChild", FALSE>>
    /\ \E t \in exiting : t[1] = t[3]
    /\ \E t \in exiting : t[1] # t[3]
    /\ Cardinality({t[2] : t \in exiting}) > 1

-----------------------------------------------------------------------------
(* The automaton the caller builds, as its operations show it. *)
AutomatonView ==
    [states |-> nfaStates, initial |-> nfaInitial, level |-> m_level,
     exiting |-> exiting, incoming |-> incoming]

(* C21: an operation of Automaton that names a state which is not a member   *)
(* leaves the automaton unchanged: connectStates returns false and adds no   *)
(* transition when from or to is not a member, and setInitialState on a      *)
(* non-member leaves the initial state and all distances as they were.       *)
C21_NonMembersRejected ==
    [][/\ \A from, to \in Objects : \A label \in AutomatonLabels :
            (ConnectStates(from, to, label) /\ ~ (from \in nfaStates /\ to \in nfaStates))
                => /\ AutomatonView' = AutomatonView
                   /\ lastCall' = <<"connectStates", FALSE>>
       /\ \A s \in Objects \ nfaStates :
            SetInitialState(s) => AutomatonView' = AutomatonView
      ]_vars

C21_Witness ==
    /\ pc = "nfa"
    /\ lastCall = <<"connectStates", FALSE>>
    /\ nfaInitial \in nfaStates
    /\ Objects \ nfaStates # {}
    /\ Cardinality(nfaStates) > 1
    /\ exiting # {}

-----------------------------------------------------------------------------
(* The first phase has ended and the second has not started. *)
Cloned == pc = "s0"

(* The states of the DFA with the state o of the NFA alone as extension. *)
ClonesOf(o) == {d \in dfaStates : m_extension[d] = {o}}

CloneOf(o) == CHOOSE d \in dfaStates : m_extension[d] = {o}

(* One ConstructedState per state of the NFA, with that state alone as        *)
(* extension and with its distance.                                          *)
OneCloneEach ==
    /\ \A o \in nfaStates : Cardinality(ClonesOf(o)) = 1
    /\ \A d \in dfaStates : \E o \in nfaStates : d \in ClonesOf(o)
    /\ \A o \in nfaStates : m_level[CloneOf(o)] = m_level[o]

EpsilonSelfLoops == {t \in NfaTransitions : t[2] = EPSILON /\ t[3] = t[1]}

(* C22: at the end of the cloning phase there is one ConstructedState per    *)
(* state of the NFA, with the singleton extension and the same distance, and *)
(* clone(a) -l-> clone(b) is in the DFA exactly when a -l-> b is in the NFA, *)
(* for every label, epsilon and the epsilon self-loops included.             *)
C22_CloneIsomorphicToNfa ==
    Cloned =>
        /\ OneCloneEach
        /\ DfaTransitions = {<<CloneOf(t[1]), t[2], CloneOf(t[3])>> : t \in NfaTransitions}

(* C22 as amended: the same, but the epsilon self-loops of the NFA are not   *)
(* copied.                                                                   *)
C22_CloneIsomorphicButSelfLoops ==
    Cloned =>
        /\ OneCloneEach
        /\ DfaTransitions =
               {<<CloneOf(t[1]), t[2], CloneOf(t[3])>> : t \in NfaTransitions \ EpsilonSelfLoops}

C22_Witness ==
    /\ Cloned
    /\ EpsilonSelfLoops # {}
    /\ \E t \in DfaTransitions : t[2] = EPSILON
    /\ \E t \in DfaTransitions : t[2] # EPSILON /\ t[1] = t[3]
    /\ \E d \in dfaStates : m_level[d] = DEFAULT_VOID_LEVEL

-----------------------------------------------------------------------------
(* The children of s under l that have an epsilon transition to another      *)
(* state, in the NFA.                                                        *)
ChildrenWithEpsilon(s, l) ==
    {c \in getChildren(NfaTransitions, s, l) :
        \E g \in getChildren(NfaTransitions, c, EPSILON) : g # c}

QueuedSingularities == {m_set[i] : i \in 1..Len(m_set)}

(* C23: at the end of the cloning phase the worklist holds (initial clone,   *)
(* epsilon) iff the initial state of the NFA has an outgoing epsilon         *)
(* transition, and (clone(s), l) for a label l other than epsilon iff s has  *)
(* more than one l-child in the NFA or an l-child of s has an epsilon        *)
(* transition to a state other than itself; it holds nothing else, and each  *)
(* singularity once.                                                         *)
C23_DetectedSingularities ==
    Cloned =>
        /\ Len(m_set) = Cardinality(QueuedSingularities)
        /\ QueuedSingularities \subseteq dfaStates \X (NfaLabels \cup {EPSILON})
        /\ \A x \in QueuedSingularities :
             x[2] = EPSILON => x[1] = CloneOf(nfaInitial)
        /\ <<CloneOf(nfaInitial), EPSILON>> \in QueuedSingularities
               <=> hasExitingTransition(NfaTransitions, nfaInitial, EPSILON)
        /\ \A s \in nfaStates : \A l \in NfaLabels :
             <<CloneOf(s), l>> \in QueuedSingularities
               <=> \/ Cardinality(getChildren(NfaTransitions, s, l)) > 1
                   \/ ChildrenWithEpsilon(s, l) # {}

C23_Witness ==
    /\ Cloned
    /\ <<CloneOf(nfaInitial), EPSILON>> \in QueuedSingularities
    /\ \E x \in QueuedSingularities :
         x[2] # EPSILON /\ Cardinality(getChildren(exiting, x[1], x[2])) > 1
    /\ \E x \in QueuedSingularities :
         x[2] # EPSILON /\ Cardinality(getChildren(exiting, x[1], x[2])) = 1
    /\ \E t \in NfaTransitions :
         /\ t[2] # EPSILON
         /\ <<CloneOf(t[1]), t[2]>> \notin QueuedSingularities
         /\ <<t[3], EPSILON, t[3]>> \in NfaTransitions

-----------------------------------------------------------------------------
EpsilonSingularities == {x \in QueuedSingularities : x[2] = EPSILON}

(* C24: in every run Scenario S0 is executed at most once and before any S1  *)
(* or S2 step: an epsilon singularity in the worklist is on the initial      *)
(* clone and is the first of the list, and once the restructuring loop has   *)
(* started no epsilon singularity is in the worklist, to be processed or     *)
(* inserted.                                                                 *)
C24_Scenario0FirstAndOnce ==
    [][/\ processed'.s0 <= 1
       /\ processed'.s0 > processed.s0 => processed.s1 = 0 /\ processed.s2 = 0
       /\ processed'.s1 + processed'.s2 > processed.s1 + processed.s2 =>
              current_singularity_label # EPSILON
       /\ pc' = "s0" =>
              /\ EpsilonSingularities' \subseteq {<<dfaInitial', EPSILON>>}
              /\ EpsilonSingularities' # {} => Head(m_set') = <<dfaInitial', EPSILON>>
       /\ pc' = "loop" => EpsilonSingularities' = {}
      ]_vars

C24_Witness ==
    /\ pc = "loop"
    /\ processed.s0 = 1
    /\ processed.s1 > 0
    /\ processed.s2 > 0
    /\ m_set # <<>>
    /\ \E t \in NfaTransitions : t[2] = EPSILON /\ t[1] # nfaInitial /\ t[3] # t[1]

(* The states Scenario S0 classifies unsafe: those of the epsilon closure of *)
(* the initial state of the DFA that are unsafe for (initial state, epsilon). *)
Scenario0Unsafe ==
    {x \in computeEpsilonClosure(exiting, {dfaInitial}) :
        isUnsafe(Heap, x, dfaInitial, EPSILON)}

NfaInitialClosure == computeEpsilonClosure(NfaTransitions, {nfaInitial})

(* C25: immediately after Scenario S0 the initial state of the DFA has the    *)
(* epsilon closure of the initial state of the NFA as extension, with its    *)
(* name and final flag computed from it, and no outgoing epsilon transition; *)
(* the states of its former epsilon closure that were classified unsafe are  *)
(* not in the DFA; and the worklist holds (initial state, l) for every label *)
(* l but epsilon that leaves a member of the closure other than the initial  *)
(* state in the NFA.                                                         *)
C25_AfterScenario0 ==
    [][(pc = "s0" /\ Scenario0Applies /\ pc' = "loop") =>
         \A unsafe_states \in {Scenario0Unsafe} :
            /\ dfaInitial' = dfaInitial
            /\ (/\ m_extension[dfaInitial] = NfaInitialClosure
                /\ m_name[dfaInitial] = createNameFromExtension(m_name, NfaInitialClosure)
                /\ m_final[dfaInitial] = hasFinalStates(m_final, NfaInitialClosure)
                /\ ~ hasExitingTransition(exiting, dfaInitial, EPSILON)
                /\ dfaInitial \in dfaStates
                /\ \A l \in getLabelsExitingFromExtension(
                               NfaTransitions, NfaInitialClosure \ {nfaInitial}) \ {EPSILON} :
                       <<dfaInitial, l>> \in QueuedSingularities)'
            /\ unsafe_states \cap dfaStates' = {}
      ]_vars

C25_Witness ==
    /\ pc = "loop"
    /\ processed = [s0 |-> 1, s1 |-> 0, s2 |-> 0]
    /\ Cardinality(m_extension[dfaInitial]) > 2
    /\ m_final[dfaInitial]
    /\ Cardinality(dfaStates) < Cardinality(nfaStates)
    /\ \E x \in QueuedSingularities : x[1] = dfaInitial
    /\ \E x \in QueuedSingularities : x[1] # dfaInitial

-----------------------------------------------------------------------------
Min(a, b) == IF a < b THEN a ELSE b

(* The last iteration of the loop, while the loop goes on. *)
LastIteration(scenario) ==
    pc = "loop" /\ Len(lastCall) >= 3 /\ lastCall[1] = scenario

(* C26: after a Scenario-S1 step on (s, l), s has exactly one child under l  *)
(* and the extension of that child is the l-closure |N of the extension of   *)
(* s; if a state named |N existed it is the child and its distance becomes   *)
(* the minimum of its distance and distance(s) + 1, otherwise the child is a *)
(* new state of distance distance(s) + 1, with a singularity queued for      *)
(* every label but epsilon that leaves its extension.                        *)
C26_AfterScenario1 ==
    [][(pc = "loop" /\ Scenario1Applies /\ processed'.s1 = processed.s1 + 1) =>
         \A state \in {current_singularity_state} : \A label \in {current_singularity_label} :
         \A closure \in {nfa_l_closure} :
         \A existing \in {getStatesByName(Heap, nfa_l_closure_name)} :
         \A distance \in {m_level} : \A objects \in {Objects} :
            \E child \in dfaStates' :
               /\ getChildren(exiting', state, label) = {child}
               /\ m_extension'[child] = closure
               /\ IF existing # {}
                  THEN /\ child \in existing
                       /\ m_level'[child] = Min(distance[child], distance[state] + 1)
                  ELSE /\ child \notin objects
                       /\ m_level'[child] = distance[state] + 1
                       /\ \A l \in getLabelsExitingFromExtension(NfaTransitions, closure)
                                       \ {EPSILON} :
                            \E i \in 1..Len(m_set') : m_set'[i] = <<child, l>>
      ]_vars

(* Scenario S1 has linked a state that existed, of a larger extension, as    *)
(* the child of another state.                                               *)
C26_Witness ==
    /\ LastIteration("Scenario1")
    /\ lastCall[4]
    /\ \E child \in dfaStates :
         /\ getChildren(exiting, lastCall[2], lastCall[3]) = {child}
         /\ child # lastCall[2]
         /\ Cardinality(m_extension[child]) > 1
         /\ Cardinality({t \in incoming : t[1] = child}) > 1

-----------------------------------------------------------------------------
(* The l-closure of the popped singularity in the DFA, and its members that  *)
(* Scenario S2 classifies unsafe.                                            *)
dfa_l_closure == computeLClosure(exiting, current_singularity_state, current_singularity_label)

Scenario2Unsafe ==
    {x \in dfa_l_closure :
        isUnsafe(Heap, x, current_singularity_state, current_singularity_label)}

AlreadyDeterministic ==
    /\ pc = "loop"
    /\ m_set # <<>>
    /\ \E child \in dfaStates :
         /\ getChildren(exiting, current_singularity_state, current_singularity_label) = {child}
         /\ ~ hasExitingTransition(exiting, child, EPSILON)
         /\ m_extension[child] = nfa_l_closure

(* C28: when the popped singularity (s, l) finds that s has exactly one      *)
(* child under l, that the child has no outgoing epsilon transition and that *)
(* its extension is the l-closure |N, the iteration only removes that        *)
(* singularity: the states, transitions, names, extensions and distances of  *)
(* the DFA, the rest of the worklist and the scenario counters are unchanged.*)
C28_NoScenarioChangesNothing ==
    [][AlreadyDeterministic =>
         /\ m_set' = Tail(m_set)
         /\ UNCHANGED <<dfaStates, dfaInitial, exiting, incoming, m_name, m_final,
                        m_level, m_extension, m_mark, stats, processed, nextId>>
      ]_vars

(* An iteration that applied no scenario has left a singularity behind it in *)
(* the worklist, after at least one Scenario-S1 step built the child.        *)
C28_Witness ==
    /\ LastIteration("NoScenario")
    /\ m_set # <<>>
    /\ processed.s1 > 0
    /\ \E child \in dfaStates \ {lastCall[2]} :
         /\ getChildren(exiting, lastCall[2], lastCall[3]) = {child}
         /\ Cardinality(m_extension[child]) > 1

(* The call of runDistanceRelocation is at the top of its loop. *)
Relocating == pc = "relocation"

(* C30: runDistanceRelocation terminates on every finite graph, graphs with  *)
(* cycles and self-loops included, and never increases the distance of a     *)
(* state: the distance of each state after the call is at most its distance  *)
(* before, and an iteration changes the distance of a state only to the      *)
(* candidate it popped, which is strictly smaller than the distance was.     *)
C30_RelocationTerminatesAndLowers ==
    /\ Relocating ~> (pc = "relocated")
    /\ [](pc = "relocated" => \A o \in dfaStates : m_level[o] <= lastCall[2][o])
    /\ [][Relocating =>
            \A o \in dfaStates :
               /\ m_level'[o] <= m_level[o]
               /\ m_level'[o] # m_level[o] =>
                    /\ relocation_sequence # <<>>
                    /\ Head(relocation_sequence) = <<o, m_level'[o]>>
         ]_vars

(* A call has returned on a graph with a self-loop and a cycle through two   *)
(* states: it lowered the distance of both states of the cycle, the one with *)
(* the self-loop among them, and left the third state at its distance.       *)
C30_Witness ==
    /\ pc = "relocated"
    /\ \E a, b \in dfaStates :
         /\ a # b
         /\ {<<a, <<97>>, a>>, <<a, <<97>>, b>>, <<b, <<97>>, a>>} \subseteq exiting
         /\ m_level[a] < lastCall[2][a]
         /\ m_level[b] < lastCall[2][b]
         /\ \E c \in dfaStates \ {a, b} : m_level[c] = lastCall[2][c]

(* The states that have a transition under label to x. *)
ParentsOf(x, label) == {t[3] : t \in {u \in incoming : u[1] = x /\ u[2] = label}}

(* x is safe for the singularity as the documentation of isSafe has it. *)
SafeFor(x, singularity_state, singularity_label) ==
    \/ x = dfaInitial
    \/ \E label \in Labels \ {singularity_label} :
         \E parent \in ParentsOf(x, label) : m_level[parent] <= m_level[singularity_state]
    \/ \E parent \in ParentsOf(x, singularity_label) \ {singularity_state} :
         m_level[parent] <= m_level[singularity_state]

(* C31: isSafe(singularityState, singularityLabel) on a state x is true      *)
(* exactly when x is the initial state, or x has an incoming transition of   *)
(* another label from a state of distance at most that of singularityState,  *)
(* or an incoming transition of singularityLabel from a state other than     *)
(* singularityState of distance at most that of singularityState; isUnsafe   *)
(* is its negation.                                                          *)
C31_IsSafe ==
    IsHandled =>
      \A x \in dfaStates : \A singularity_state \in dfaStates : \A singularity_label \in Labels :
         /\ isSafe(Heap, x, singularity_state, singularity_label)
              <=> SafeFor(x, singularity_state, singularity_label)
         /\ isUnsafe(Heap, x, singularity_state, singularity_label)
              <=> ~ SafeFor(x, singularity_state, singularity_label)

(* Scenario S2 applies to (s, l), and of the children of s under l one is    *)
(* safe only by a second parent under l and another, whose one parent is s,  *)
(* is unsafe.                                                                *)
C31_Witness ==
    /\ pc = "loop"
    /\ Scenario2Applies
    /\ \E x, y \in getChildren(exiting, current_singularity_state, current_singularity_label) :
         /\ x # dfaInitial
         /\ \A label \in Labels \ {current_singularity_label} : ParentsOf(x, label) = {}
         /\ isSafe(Heap, x, current_singularity_state, current_singularity_label)
         /\ y # dfaInitial
         /\ isUnsafe(Heap, y, current_singularity_state, current_singularity_label)

(* The positions of the worklist whose singularity is not one of state x. *)
PositionsOfOthers(x) == {i \in 1..Len(m_set) : m_set[i][1] # x}

(* C32: SingularityList::removeSingularitiesOfState(x) removes every entry   *)
(* whose state is x and only those, returns exactly the labels of the        *)
(* removed entries, and leaves the entries of other states present and in    *)
(* the same relative order.                                                  *)
C32_RemoveSingularitiesOfState ==
    IsHandled =>
      \A x \in dfaStates :
         LET after == removeSingularitiesOfState(Heap, {x})
             others == PositionsOfOthers(x)
         IN  /\ \A k \in 1..Len(after.set) : after.set[k][1] # x
             /\ Len(after.set) = Cardinality(others)
             /\ \A i \in others :
                  after.set[Cardinality({j \in others : j <= i})] = m_set[i]
             /\ removedLabels(Heap, x) = {l \in Labels : \E i \in 1..Len(m_set) : m_set[i] = <<x, l>>}
             /\ after = [Heap EXCEPT !.set = after.set]

(* The worklist holds two singularities of a state between singularities of  *)
(* other states.                                                             *)
C32_Witness ==
    /\ pc = "loop"
    /\ \E i, j, k, n \in 1..Len(m_set) :
         /\ i < j /\ j < k /\ k < n
         /\ m_set[j][1] = m_set[k][1]
         /\ m_set[j][2] # m_set[k][2]
         /\ m_set[i][1] # m_set[j][1]
         /\ m_set[n][1] # m_set[j][1]
         /\ m_set[i][1] # m_set[n][1]

(* The members of the automaton that a path of transitions through members  *)
(* leads to from its initial state.                                          *)
ReachableStates ==
    IF nfaInitial \in nfaStates
    THEN ReachableFrom({t \in exiting : t[1] \in nfaStates /\ t[3] \in nfaStates}, {nfaInitial})
    ELSE {}

(* C33: Automaton::removeUnreachableStates removes exactly the states that   *)
(* the initial state does not reach and returns them, keeps every reachable  *)
(* state with its transitions, and afterwards no remaining state has a       *)
(* removed state among its children or among its parents.                    *)
C33_RemoveUnreachableStates ==
    [][RemoveUnreachableStates =>
         \A members \in {nfaStates} : \A reachable \in {ReachableStates} :
         \A kept \in {ViewOf(ReachableStates)} :
            /\ nfaStates' = reachable
            /\ lastCall' = <<"removeUnreachableStates", members \ reachable>>
            /\ \A remaining \in {nfaStates'} : ViewOf(remaining)' = kept
            /\ \A t \in exiting' \cup incoming' :
                 t[1] \in nfaStates' => t[3] \notin members \ reachable
      ]_vars

(* C34: at the end of every iteration of the restructuring loop, and after   *)
(* Scenario S0, the DFA has no dangling reference: every child and every     *)
(* parent in the transitions of a member is a member, and every singularity  *)
(* of the worklist is one of a member.                                       *)
C34_NoDanglingReference ==
    pc \in {"loop", "done"} =>
        /\ \A t \in exiting \cup incoming : t[1] \in dfaStates => t[3] \in dfaStates
        /\ \A i \in 1..Len(m_set) : m_set[i][1] \in dfaStates

(* C35: in Scenario S0 and in Scenario S2 the state of the singularity being *)
(* processed is never classified unsafe, and so it is never removed from the *)
(* DFA while it is processed, also when it is its own child under the label  *)
(* of the singularity and when its distance is stale.                        *)
C35_SingularityStateIsSafe ==
    [][/\ (pc = "s0" /\ Scenario0Applies /\ processed'.s0 = processed.s0 + 1) =>
            \A state \in {Head(m_set)[1]} :
               /\ state \notin Scenario0Unsafe
               /\ state \in dfaStates'
       /\ (pc = "loop" /\ Scenario2Applies /\ processed'.s2 = processed.s2 + 1) =>
            \A state \in {current_singularity_state} :
               /\ state \notin Scenario2Unsafe
               /\ state \in dfaStates'
      ]_vars

(* C36: QuickSubsetConstruction::run never adds a state with an empty        *)
(* extension to the DFA: whenever Scenario S1 or S2 creates a state, the     *)
(* l-closure |N it is built from is not empty, and at no point of a run is   *)
(* there a state of the DFA named with the token of the empty extension.     *)
C36_NoEmptyExtension ==
    /\ [](\A d \in dfaStates : m_extension[d] # {} /\ m_name[d] # EMPTY_EXTENSION_NAME)
    /\ [][(pc = "loop" /\ dfaStates' \ Objects # {}) => nfa_l_closure # {}]_vars

(* Scenario S2 has just created the state that it made the one child of the *)
(* singularity state, with the l-closure as extension, after Scenario S1     *)
(* created a state too.                                                      *)
C36_Witness ==
    /\ LastIteration("Scenario2")
    /\ processed.s1 > 0
    /\ nextId - 1 \in dfaStates
    /\ getChildren(exiting, lastCall[2], lastCall[3]) = {nextId - 1}
    /\ Cardinality(m_extension[nextId - 1]) > 1
    /\ \E d \in dfaStates \ {nextId - 1} : Cardinality(m_extension[d]) > 1 /\ d # dfaInitial

(* C37: at the start of every iteration of the restructuring loop no two     *)
(* distinct states of the DFA have the same name, so the lookup by name of   *)
(* Automaton::getState for the state named |N in Scenario S1 and S2 finds    *)
(* at most one state.                                                        *)
C37_UniqueNamesAtLoopStart ==
    pc = "loop" =>
        /\ \A a, b \in dfaStates : a # b => m_name[a] # m_name[b]
        /\ m_set # <<>> => Cardinality(getStatesByName(Heap, nfa_l_closure_name)) <= 1

(* An iteration starts with Scenario S1 or S2 to apply and a state named |N  *)
(* of more than one member in the DFA, which is not the singularity state.   *)
C37_Witness ==
    /\ pc = "loop"
    /\ Scenario1Applies \/ Scenario2Applies
    /\ Cardinality(nfa_l_closure) > 1
    /\ \E found \in getStatesByName(Heap, nfa_l_closure_name) : found # current_singularity_state
    /\ processed.s1 + processed.s2 > 0

(* C38: the DFA that QuickSubsetConstruction::run returns does not depend on *)
(* the order in which the states are enumerated: two calls on the same NFA   *)
(* with any two orders of its states return structurally equal DFAs, with    *)
(* the same names, final states and transitions, and the same scenario       *)
(* counts.                                                                   *)
C38_OrderIndependent ==
    (Returned /\ previous # <<>>) => ReturnedDfa = previous

(* The second call has returned, with Scenario S1 and S2 both applied, after *)
(* it cloned two states of the NFA in the reverse of their order.            *)
C38_Witness ==
    /\ Returned
    /\ previous # <<>>
    /\ stats.s1 > 0
    /\ stats.s2 > 0
    /\ \E d, e \in dfaStates :
          /\ Cardinality(m_extension[d]) = 1
          /\ Cardinality(m_extension[e]) = 1
          /\ e < d
          /\ \E x \in m_extension[d], y \in m_extension[e] : x < y

=============================================================================
